---- MODULE Spec2Model ----
(***************************************************************************)
(* Model of the UEFI TCP4 adapter of library/std/src/sys/uefi/net:         *)
(* Tcp4Protocol (tcp4.rs) and ServiceBinding (net/mod.rs).                 *)
(*                                                                         *)
(* One execution context runs the adapter.  An adapter operation that      *)
(* carries a completion token is split at its suspension point: the part   *)
(* up to and including the firmware call, the return of Event::wait, and   *)
(* the part after the wait.  The firmware is the environment: it answers   *)
(* every call with a status of its choice and completes a submitted token  *)
(* when it wants to.                                                       *)
(***************************************************************************)
EXTENDS Integers, Sequences, FiniteSets, TLC

\* Bounds of the model.
MaxOps == 3        \* adapter operations invoked in one run
MaxLen == 2        \* longest caller buffer (bytes) and longest region list
MaxBytes == 4      \* most bytes written in one loopback round trip
MaxPipeOps == 4    \* calls made on one AnonPipe in one run
MaxWrite == 3      \* longest buffer written to or read from an AnonPipe
RingCap == 4       \* slots of the ring behind a Pipedata queue (MIN_BUFFER, scaled down)
MaxStdWrites == 2  \* writes to the standard streams in one run
MaxCmdOps == 3     \* stdio settings made on one Command
MaxUcs2Chars == 3  \* characters in a buffer given to utf8_to_ucs2
MaxOutput == 4     \* units in the output buffer given to utf8_to_ucs2
MaxCmdLen == 6     \* code units in a command line given to parse_lp_cmd_line

\* Program constants.
TYPE_OF_SERVICE == 8
TIME_TO_LIVE == 255
NullHandle == 0
SizeOfIoSlice == 16
SizeOfSliceRef == 16
TwoPow16 == 65536
Junk == 0          \* a byte read from memory that belongs to no caller region
Unset == -1        \* a byte of a caller region the firmware did not write
MAX_BUFFER_SIZE == 8192

VARIABLES
    sock,          \* the Tcp4Protocol values: slot -> [st, protocol, service_binding, child_handle]
    nextHandle,    \* firmware: the next child handle it will hand out
    call,          \* the activation of the adapter operation in progress
    ret,           \* what the last finished operation returned (with its path)
    outstanding,   \* firmware: tokens submitted and not yet signalled
    liveEvents,    \* events created and not yet closed
    liveRecords,   \* VariableSizeType records allocated and not yet freed
    nops,          \* number of operations invoked so far
    obtained,      \* child handles the adapter received from the firmware
    destroyCalls,  \* child handle -> number of ServiceBinding::destroy_child calls on it
    lifeLog,       \* slot -> how it was constructed, then the close / destroy_child calls made for it
    lastConfig,    \* slot -> what its last config() returned
    panicked,      \* the program hit a panic
    afterClose,    \* slot -> "open", "closed" once a close() on it completed with success,
                   \*         "used" once a firmware call was issued on it after that
    rt,            \* the loopback round trip of one vectored write and read
    sb,            \* the calls made on one ServiceBinding value and what the last one did
    chan,          \* one AnonPipe: its protocol, its queue, its traffic and the last call on it
    stdio,         \* the standard streams: the environment keys, the console and the last write
    cmd,           \* one process::Command and the last call on it
    pf             \* one application of a conversion: its input and its result

adapterVars == <<sock, nextHandle, call, ret, outstanding, liveEvents, liveRecords,
                 nops, obtained, destroyCalls, lifeLog, lastConfig, panicked, afterClose>>

\* What the adapter's operations never touch.
sideVars == <<rt, sb, chan, stdio, cmd, pf>>

vars == <<adapterVars, sideVars>>

SockIds == 1..MaxOps
Handles == 1..MaxOps

----------------------------------------------------------------------------
\* r_efi::efi::Status values the firmware answers with.
Statuses == {"SUCCESS", "WARN_UNKNOWN_GLYPH", "INVALID_PARAMETER",
             "OUT_OF_RESOURCES", "UNSUPPORTED", "ACCESS_DENIED", "ABORTED"}

\* Status::is_error: the high bit of the code is set.
is_error(r) == r \notin {"SUCCESS", "WARN_UNKNOWN_GLYPH"}

\* common::status_to_io_error.
status_to_io_error(r) ==
    [kind |-> CASE r = "INVALID_PARAMETER" -> "InvalidInput"
                [] r = "OUT_OF_RESOURCES" -> "OutOfMemory"
                [] r = "UNSUPPORTED" -> "Unsupported"
                [] r = "ACCESS_DENIED" -> "PermissionDenied"
                [] r = "NOT_FOUND" -> "NotFound"
                [] OTHER -> "Other",
     code |-> r]

\* Outcomes of the collaborators whose result the adapter propagates with `?`.
EventCreateOutcomes == {"SUCCESS", "OUT_OF_RESOURCES"}       \* uefi::thread::Event::create
WaitErrors == {"UNSUPPORTED"}                                \* uefi::thread::Event::wait
FromSizeOutcomes == {"SUCCESS", "OUT_OF_RESOURCES"}          \* VariableSizeType::from_size
OpenProtocolOutcomes == {"SUCCESS", "UNSUPPORTED"}           \* uefi::env::open_protocol

\* ServiceBinding values: { service_binding_guid, handle }.
ServiceBindings ==
    {[service_binding_guid |-> "TCP4_SERVICE_BINDING", handle |-> p] : p \in {"nicA", "nicB"}}

NoBinding == [service_binding_guid |-> "none", handle |-> "none"]

\* The tcp4::Protocol interface open_protocol returns for a child handle.
ProtocolOn(h) == <<"tcp4", h>>

Ok(v) == [kind |-> "Ok", val |-> v, err |-> [kind |-> "none", code |-> "none"]]
Err(e) == [kind |-> "Err", val |-> 0, err |-> e]
Unit == 0

\* io::Error::new(kind, message).
io_error(kind, msg) == [kind |-> kind, code |-> msg]

----------------------------------------------------------------------------
\* Caller buffers.  A buffer is its length; a region list is a sequence of
\* region lengths; fragment_buffer of region i is the pair <<"region", i>>.
BufLens == 0..MaxLen
RegionLists == {<<>>, <<1>>} \cup {<<MaxLen, 1>>}

\* `as u32`: n modulo 2^32, written with 16-bit factors (2^32 = 2^16 * 2^16).
U32(n) == n - TwoPow16 * (TwoPow16 * ((n \div TwoPow16) \div TwoPow16))

NoRec == [push |-> FALSE, urgent |-> FALSE, data_length |-> 0,
          fragment_count |-> 0, fragment_table |-> <<>>]

\* tcp4::TransmitData built by transmit(buf), buf of n bytes.
TransmitRecord(n) ==
    [push |-> TRUE, urgent |-> FALSE, data_length |-> U32(n), fragment_count |-> 1,
     fragment_table |-> <<[fragment_length |-> U32(n), fragment_buffer |-> <<"region", 1>>]>>]

\* tcp4::ReceiveData built by receive(buf), buf of n bytes.
ReceiveRecord(n) ==
    [push |-> FALSE, urgent |-> FALSE, data_length |-> U32(n), fragment_count |-> 1,
     fragment_table |-> <<[fragment_length |-> U32(n), fragment_buffer |-> <<"region", 1>>]>>]

\* tcp4::TransmitData built by transmit_vectored(buf), buf a list of regions:
\* buf_size is size_of_val(buf), the fragment length is size_of_val(b).
TransmitVectoredRecord(regions) ==
    [push |-> TRUE, urgent |-> FALSE,
     data_length |-> U32(Len(regions) * SizeOfIoSlice),
     fragment_count |-> U32(Len(regions)),
     fragment_table |-> [i \in 1..Len(regions) |->
         [fragment_length |-> U32(SizeOfIoSlice), fragment_buffer |-> <<"region", i>>]]]

\* tcp4::ReceiveData built by receive_vectored(buf): buf_size is
\* size_of_val(&buf), the size of the slice reference itself.
ReceiveVectoredRecord(regions) ==
    [push |-> FALSE, urgent |-> FALSE,
     data_length |-> U32(SizeOfSliceRef),
     fragment_count |-> U32(Len(regions)),
     fragment_table |-> [i \in 1..Len(regions) |->
         [fragment_length |-> U32(SizeOfIoSlice), fragment_buffer |-> <<"region", i>>]]]

\* Lengths the firmware may write into the record of a completed transfer.
FwReport(d) == (0..MaxLen) \cup {d}

IoOps == {"transmit", "transmit_vectored", "receive", "receive_vectored"}
TokenOps == IoOps \cup {"accept", "close"}

----------------------------------------------------------------------------
\* Addresses and the argument tuples config() is called with.
ConfigArgs ==
    {[use_default_address |-> FALSE, active_flag |-> FALSE,
      station_addr |-> <<"10.0.0.1", 80>>, subnet_mask |-> "255.255.255.0",
      remote_addr |-> <<"0.0.0.0", 0>>],
     [use_default_address |-> TRUE, active_flag |-> TRUE,
      station_addr |-> <<"0.0.0.0", 0>>, subnet_mask |-> "0.0.0.0",
      remote_addr |-> <<"10.0.0.2", 7>>]}

\* Variant: the subnet mask is passed where the remote address belongs.
MutConfigDataRemoteFromMask(a) ==
    [type_of_service |-> TYPE_OF_SERVICE,
     time_to_live |-> TIME_TO_LIVE,
     access_point |->
        [use_default_address |-> a.use_default_address,
         station_address |-> a.station_addr[1],
         station_port |-> a.station_addr[2],
         subnet_mask |-> a.subnet_mask,
         remote_address |-> a.subnet_mask,
         remote_port |-> a.remote_addr[2],
         active_flag |-> a.active_flag],
     control_option |-> "null"]

\* tcp4::ConfigData built by config().
ConfigData(a) ==
    [type_of_service |-> TYPE_OF_SERVICE,
     time_to_live |-> TIME_TO_LIVE,
     access_point |->
        [use_default_address |-> a.use_default_address,
         station_address |-> a.station_addr[1],
         station_port |-> a.station_addr[2],
         subnet_mask |-> a.subnet_mask,
         remote_address |-> a.remote_addr[1],
         remote_port |-> a.remote_addr[2],
         active_flag |-> a.active_flag],
     control_option |-> "null"]

\* receive_raw / transmit_raw / config_raw / accept_raw: the status of the
\* firmware call as an io::Result.
raw_result(r) == IF is_error(r) THEN Err(status_to_io_error(r)) ELSE Ok(Unit)

\* What get_mode_data may store as the configuration of the instance.
ModeConfigs == {ConfigData(a) : a \in ConfigArgs}

\* Tcp4Protocol::get_config_data: r is the status of get_mode_data, m the
\* ConfigData it stored.
get_config_data(r, m) == IF is_error(r) THEN Err(status_to_io_error(r)) ELSE Ok(m)

\* Variant: the station address is returned as the remote one.
MutRemoteSocketStation(g) ==
    IF g.kind = "Err" THEN g
    ELSE Ok(<<g.val.access_point.station_address, g.val.access_point.station_port>>)

\* Tcp4Protocol::remote_socket, g the result of get_config_data.
remote_socket(g) ==
    IF g.kind = "Err" THEN g
    ELSE Ok(<<g.val.access_point.remote_address, g.val.access_point.remote_port>>)

\* Tcp4Protocol::station_socket, g the result of get_config_data.
station_socket(g) ==
    IF g.kind = "Err" THEN g
    ELSE Ok(<<g.val.access_point.station_address, g.val.access_point.station_port>>)

\* Variant: every error status of the firmware create_child becomes Other.
MutCreateChildAllOther(o, r, h) ==
    IF is_error(o) THEN Err(status_to_io_error(o))
    ELSE IF is_error(r) THEN Err(io_error("Other", r))
    ELSE IF h = NullHandle THEN Err(io_error("Other", "Null Handle"))
    ELSE Ok(h)

\* ServiceBinding::create_child: o is the outcome of open_protocol on the
\* parent handle, r the status of the firmware create_child, h the handle it
\* stored.
create_child(o, r, h) ==
    IF is_error(o) THEN Err(status_to_io_error(o))
    ELSE IF is_error(r) THEN
        CASE r = "INVALID_PARAMETER" -> Err(io_error("InvalidInput", "ChildHandle is NULL"))
          [] r = "OUT_OF_RESOURCES" -> Err(io_error("OutOfMemory", "not enough resources"))
          [] OTHER -> Err(io_error("Other", r))
    ELSE IF h = NullHandle THEN Err(io_error("Other", "Null Handle"))
    ELSE Ok(h)

\* Variant: the lookup that failed falls back on the result of an earlier one.
MutProtocolResolvedCached(o) == TRUE

\* `uefi::env::open_protocol(self.handle, self.service_binding_guid)?` at the
\* head of create_child and of destroy_child: the firmware function is
\* reached only through the pointer this lookup returned.
ProtocolResolved(o) == ~is_error(o)

\* Variant: every error status of the firmware destroy_child becomes Other.
MutDestroyChildAllOther(o, r) ==
    IF is_error(o) THEN Err(status_to_io_error(o))
    ELSE IF is_error(r) THEN Err(io_error("Other", r))
    ELSE Ok(Unit)

\* ServiceBinding::destroy_child: o is the outcome of open_protocol on the
\* parent handle, r the status of the firmware destroy_child.
destroy_child(o, r) ==
    IF is_error(o) THEN Err(status_to_io_error(o))
    ELSE IF is_error(r) THEN
        CASE r = "UNSUPPORTED" -> Err(io_error("Unsupported", "ChildHandle does not support the protocol"))
          [] r = "INVALID_PARAMETER" -> Err(io_error("InvalidInput", "ChildHandle is not a valid UEFI handle"))
          [] r = "ACCESS_DENIED" -> Err(io_error("PermissionDenied", "services are being used"))
          [] OTHER -> Err(io_error("Other", r))
    ELSE Ok(Unit)

\* Tcp4Protocol::new.
new(protocol, service_binding, child_handle) ==
    [st |-> "live", protocol |-> protocol, service_binding |-> service_binding,
     child_handle |-> child_handle]

\* Tcp4Protocol::with_child_handle: o is the outcome of open_protocol on the
\* child handle.
with_child_handle(service_binding, child_handle, o) ==
    IF is_error(o) THEN Err(status_to_io_error(o))
    ELSE Ok(new(ProtocolOn(child_handle), service_binding, child_handle))

\* Variant: the new child handle is wrapped without the null check.
MutAcceptChildUnchecked(h) == Ok(h)

\* accept(): NonNull::new(listen_token.new_child_handle).ok_or(Other).
AcceptChild(h) ==
    IF h = NullHandle THEN Err(io_error("Other", "Null Child Handle")) ELSE Ok(h)

\* Variant: the accepted socket is bound to another service binding.
MutAcceptBindingOther(listener) ==
    CHOOSE b \in ServiceBindings : b # listener.service_binding

\* accept(): the binding handed to with_child_handle.
AcceptBinding(listener) == listener.service_binding

\* Variant: transmit returns the length the caller asked for.
MutTransmitResultRequested(c) == c.bufSize

\* transmit / transmit_vectored: the value returned after a non-error status.
TransmitResult(c) == c.rec.data_length

\* Variant: receive returns the capacity of the caller's buffer.
MutReceiveResultRequested(c) == c.bufSize

\* receive / receive_vectored: the value returned after a non-error status.
ReceiveResult(c) == c.rec.data_length

\* Event's destructor closes the firmware event.
EventDrop(live, tok) == live \ {tok}

\* VariableSizeType's destructor frees the record.
VariableSizeTypeDrop(live, tok) == live \ {tok}

\* Variant: the record is handed to the firmware by value and not freed by the
\* method.
MutOwnedAtExitNoRecord(op) == {"event"}

\* The resources a token operation owns when it returns: the event and, in
\* the I/O operations, the record are `let` locals of the method; the token
\* and the packet hold only raw pointers to them (as_raw_event, as_ptr).
OwnedAtExit(op) ==
    IF op \in {"transmit", "transmit_vectored", "receive", "receive_vectored"}
    THEN {"event", "record"} ELSE {"event"}

\* The live events and records after the method's locals have been dropped.
ExitEvents(op, tok, live) ==
    IF "event" \in OwnedAtExit(op) THEN EventDrop(live, tok) ELSE live
ExitRecords(op, tok, live) ==
    IF "record" \in OwnedAtExit(op) THEN VariableSizeTypeDrop(live, tok) ELSE live

\* Variant: the operation goes on after Event::create failed.
MutAfterEventCreateProceed(ev) == "proceed"

\* Where a token operation goes after Event::create returned status ev: the
\* `?` on the result leaves the function on an error.
AfterEventCreate(ev) == IF is_error(ev) THEN "return" ELSE "proceed"

\* Variant: the operation waits for the event whatever status the call returned.
MutAfterSubmitAlwaysWait(r) == "wait"

\* Variant: the status cell is polled right after the firmware call.
MutAfterSubmitPoll(r) == IF is_error(r) THEN "return" ELSE "read"

\* Where a token operation goes after the firmware call returned status r.
AfterSubmit(r) == IF is_error(r) THEN "return" ELSE "wait"

\* Variant: drop() destroys the child before it closes the connection.
MutDropStepsReversed == <<"destroy_child", "close">>

\* Variant: drop() destroys the child a second time.
MutDropStepsDestroyTwice == <<"close", "destroy_child", "destroy_child">>

\* impl Drop for Tcp4Protocol: the calls of drop(), in order.
DropSteps == <<"close", "destroy_child">>

\* Variant: drop() gives up when close fails (`self.close(true)?`-like).
MutDropStopsOnCloseError(closeRet) == closeRet # "Err"

\* drop(): `let _ = self.close(true);` goes on whatever close returned.
DropContinues(closeRet) == TRUE

----------------------------------------------------------------------------
\* Loopback round trip: N bytes, byte j carrying the value j, are written
\* with one transmit_vectored and read back with one receive_vectored.  A
\* region is the sequence of its bytes; a fragmentation is the sequence of the
\* lengths of its regions.

\* The ways to split n bytes into non-empty regions.
RECURSIVE Compositions(_)
Compositions(n) ==
    IF n = 0 THEN {<<>>}
    ELSE UNION {{<<k>> \o c : c \in Compositions(n - k)} : k \in 1..n}

RECURSIVE SumLen(_)
SumLen(lens) == IF lens = <<>> THEN 0 ELSE lens[1] + SumLen(Tail(lens))

\* Offset of region i in the caller's data.
RegionOffset(lens, i) == SumLen(SubSeq(lens, 1, i - 1))

\* Where the caller's regions lie: one after the other in one buffer, or each
\* on its own with foreign memory behind it.
Layouts == {"adjacent", "apart"}

\* Firmware transmit: the len bytes found at the start of region i of a
\* caller whose regions have the given lengths; what lies behind a region
\* depends on the layout.
ReadAt(lens, i, len, layout) ==
    LET base == RegionOffset(lens, i)
        own == IF layout = "adjacent" THEN SumLen(lens) - base ELSE lens[i]
    IN  [j \in 1..len |-> IF j <= own THEN base + j ELSE Junk]

RECURSIVE WireOf(_, _, _, _)
\* Firmware transmit: the bytes the record describes, fragments i.. in order.
WireOf(rec, lens, layout, i) ==
    IF i > Len(rec.fragment_table) THEN <<>>
    ELSE ReadAt(lens, i, rec.fragment_table[i].fragment_length, layout)
            \o WireOf(rec, lens, layout, i + 1)

\* Firmware receive: the part of the delivered bytes that goes to fragment f,
\* every fragment taking fragment_length bytes while bytes remain.
ChunkOf(rec, bytes, f) ==
    LET before == SumLen([k \in 1..(f - 1) |-> rec.fragment_table[k].fragment_length])
        upto == before + rec.fragment_table[f].fragment_length
    IN  SubSeq(bytes, before + 1, IF upto < Len(bytes) THEN upto ELSE Len(bytes))

\* Firmware receive: byte j of the caller's region i after the firmware stored
\* the delivered bytes through the fragment table.  A chunk longer than its
\* region runs over the region's end: into the following regions when they
\* are adjacent, into foreign memory otherwise.
StoredAt(rec, lens, layout, bytes, i, j) ==
    LET addr == RegionOffset(lens, i) + j
        hits == {f \in 1..Len(rec.fragment_table) :
                    IF layout = "adjacent"
                    THEN /\ RegionOffset(lens, f) < addr
                         /\ addr <= RegionOffset(lens, f) + Len(ChunkOf(rec, bytes, f))
                    ELSE f = i /\ j <= Len(ChunkOf(rec, bytes, f))}
    IN  IF hits = {} THEN Unset
        ELSE LET f == CHOOSE g \in hits : \A h \in hits : h <= g
             IN  ChunkOf(rec, bytes, f)[addr - RegionOffset(lens, f)]

\* The caller's regions, one after the other, after the firmware's stores.
RegionsAfter(rec, lens, layout, bytes) ==
    [a \in 1..SumLen(lens) |->
        LET i == CHOOSE k \in 1..Len(lens) :
                    RegionOffset(lens, k) < a /\ a <= RegionOffset(lens, k) + lens[k]
        IN  StoredAt(rec, lens, layout, bytes, i, a - RegionOffset(lens, i))]

\* The UEFI TCP4 Transmit() / Receive() parameter check: DataLength is the
\* sum of the fragment lengths and there is at least one fragment.
RecordConsistent(rec) ==
    /\ rec.fragment_count > 0
    /\ rec.fragment_count = Len(rec.fragment_table)
    /\ rec.data_length =
          SumLen([k \in 1..Len(rec.fragment_table) |-> rec.fragment_table[k].fragment_length])

NoResult == [kind |-> "none", val |-> 0, err |-> [kind |-> "none", code |-> "none"]]

\* One ServiceBinding value used on its own: nothing called yet.
NoSbCall == [op |-> "none", o |-> "none", r |-> "none", h |-> NullHandle,
             invoked |-> FALSE, res |-> NoResult]

SbOff == [pc |-> "off", binding |-> NoBinding, calls |-> 0, lookups |-> 0, fw |-> <<>>,
          last |-> NoSbCall]

----------------------------------------------------------------------------
\* Anonymous pipes.  Bytes are numbered: the k-th byte a backed pipe ever
\* accepted has the value k, so order and loss show in the values.

Min(a, b) == IF a < b THEN a ELSE b

\* VecDeque<u8>: `items` from the front, the front element in slot `head` of
\* a ring of RingCap slots.
EmptyQueue == [head |-> 0, items |-> <<>>]

\* The first of the two slices VecDeque::as_slices returns: the elements up
\* to the end of the ring.
FrontLen(q) == Min(Len(q.items), RingCap - q.head)

\* <VecDeque<u8> as io::Read>::read: fills buf from the front slice and
\* drains what it copied; a queue drained to empty starts again at slot 0.
VecDequeRead(q, n) ==
    LET k == Min(n, FrontLen(q))
    IN  [res |-> Ok(k), data |-> SubSeq(q.items, 1, k),
         q |-> IF k = Len(q.items) THEN EmptyQueue
               ELSE [head |-> (q.head + k) % RingCap,
                     items |-> SubSeq(q.items, k + 1, Len(q.items))]]

\* <VecDeque<u8> as io::Write>::write: extends the queue by the whole buffer.
VecDequeWrite(q, b) == [res |-> Ok(Len(b)), q |-> [q EXCEPT !.items = @ \o b]]

\* Vec::reserve_exact(additional) on a Vec of `len` elements and capacity `cap`.
reserve_exact(len, cap, additional) == IF cap - len >= additional THEN cap ELSE len + additional

\* Variant: the count the queue reports is not written back to buf_size.
MutPipeProtocolReadKeepsSize(q, buf_size) ==
    LET x == VecDequeRead(q, buf_size)
    IN  [status |-> "SUCCESS", buf_size |-> buf_size, data |-> x.data, q |-> x.q]

\* pipe_protocol_read(protocol, buf_size, buf).
pipe_protocol_read(q, buf_size) ==
    LET x == VecDequeRead(q, buf_size)
    IN  IF x.res.kind = "Ok"
        THEN [status |-> "SUCCESS", buf_size |-> x.res.val, data |-> x.data, q |-> x.q]
        ELSE [status |-> "ABORTED", buf_size |-> buf_size, data |-> <<>>, q |-> q]

\* Variant: only the first byte of the buffer is queued.
MutPipeProtocolWriteOneByte(q, b) ==
    LET x == VecDequeWrite(q, SubSeq(b, 1, Min(1, Len(b))))
    IN  [status |-> "SUCCESS", buf_size |-> x.res.val, q |-> x.q]

\* pipe_protocol_write(protocol, buf_size, buf).
pipe_protocol_write(q, b) ==
    LET x == VecDequeWrite(q, b)
    IN  IF x.res.kind = "Ok"
        THEN [status |-> "SUCCESS", buf_size |-> x.res.val, q |-> x.q]
        ELSE [status |-> "ABORTED", buf_size |-> Len(b), q |-> q]

\* pipe_protocol_size(protocol).
pipe_protocol_size(q) == Len(q.items)

\* pipe_protocol_null_write: buf_size is left as the caller set it.
pipe_protocol_null_write(q, b) == [status |-> "SUCCESS", buf_size |-> Len(b), q |-> q]

\* Variant: buf_size is left as the caller set it.
MutPipeProtocolNullReadKeepsSize(q, buf_size) ==
    [status |-> "SUCCESS", buf_size |-> buf_size, data |-> <<>>, q |-> q]

\* pipe_protocol_null_read: buf_size.write(0).
pipe_protocol_null_read(q, buf_size) ==
    [status |-> "SUCCESS", buf_size |-> 0, data |-> <<>>, q |-> q]

\* pipe_protocol_null_size.
pipe_protocol_null_size(q) == 0

\* The function table of the installed protocol: Protocol::with_data for a
\* pipe made by make_pipe, Protocol::null for one made by null.
ProtocolRead(kind, q, buf_size) ==
    IF kind = "null" THEN pipe_protocol_null_read(q, buf_size) ELSE pipe_protocol_read(q, buf_size)

ProtocolWrite(kind, q, b) ==
    IF kind = "null" THEN pipe_protocol_null_write(q, b) ELSE pipe_protocol_write(q, b)

ProtocolSize(kind, q) ==
    IF kind = "null" THEN pipe_protocol_null_size(q) ELSE pipe_protocol_size(q)

\* `if r.is_error() { Err(common::status_to_io_error(r)) } else { Ok(buf_size) }`.
PipeResult(r, buf_size) == IF is_error(r) THEN Err(status_to_io_error(r)) ELSE Ok(buf_size)

\* Variant: read_to_end leaves the length of the sink alone.
MutReadToEndLenKept(len, n) == len

\* read_to_end: `buf.set_len(buf.len() + buf_size)`.
ReadToEndLen(len, n) == len + n

\* What a byte of the sink's spare capacity may hold before anything is
\* written to it.
SpareBytes == {Junk, 1}

\* The Vec<u8> values handed to read_to_end: the contents and the capacity.
Sinks == {[bytes |-> <<>>, cap |-> 0], [bytes |-> <<>>, cap |-> 2],
          [bytes |-> <<9>>, cap |-> 1], [bytes |-> <<9, 8>>, cap |-> RingCap + 2]}

NoPipeCall == [op |-> "none", n |-> 0, b |-> <<>>, before |-> <<>>, res |-> NoResult,
               out |-> <<>>, sink0 |-> <<>>, sink |-> <<>>]

ChanOff == [kind |-> "off", q |-> EmptyQueue, written |-> 0, got |-> <<>>, calls |-> 0,
            prev |-> NoPipeCall, last |-> NoPipeCall]

\* AnonPipe::null() and AnonPipe::make_pipe().
ChanInputs == {[ChanOff EXCEPT !.kind = k] : k \in {"null", "backed"}}

----------------------------------------------------------------------------
\* The standard streams.  A buffer is a sequence of characters: "a" (one
\* byte of UTF-8), "LF" (one byte), "e2" (a character of two bytes) and "bad"
\* (a byte that is not UTF-8).

Chars == {"a", "LF", "e2", "bad"}

len_utf8(ch) == IF ch = "e2" THEN 2 ELSE 1

\* buf.len(): the bytes of the buffer.
RECURSIVE ByteLen(_)
ByteLen(buf) == IF buf = <<>> THEN 0 ELSE len_utf8(buf[1]) + ByteLen(Tail(buf))

\* ucs2::EncodeUcs2::from_bytes(buf): an iterator over the characters, or an
\* error when the bytes are not UTF-8.
from_bytes(buf) == IF \E i \in DOMAIN buf : buf[i] = "bad" THEN Err("Utf8Error") ELSE Ok(buf)

\* Variant: the loop stops only when no slot is left at all.
MutOutputFullLate(count, n) == count >= n

\* `count + 1 >= output.len()`: one slot must stay free for the terminator.
OutputFull(count, n) == count + 1 >= n

\* A store past the end of output: the bounds check panics.
Ucs2Panic(o) == [panic |-> TRUE, res |-> Ok(0), units |-> o]

\* `output[count] = 0; Ok(bytes_read)` after the loop.
Ucs2Finish(o, bytes_read, n) ==
    IF Len(o) >= n THEN Ucs2Panic(o)
    ELSE [panic |-> FALSE, res |-> Ok(bytes_read), units |-> Append(o, "NUL")]

\* The loop and the tail of utf8_to_ucs2: i the next character, out the
\* units stored so far (count = Len(out)), bytes_read the bytes consumed,
\* n = output.len().
RECURSIVE Ucs2Loop(_, _, _, _, _)
Ucs2Loop(buf, i, out, bytes_read, n) ==
    IF i > Len(buf) THEN Ucs2Finish(out, bytes_read, n)
    ELSE LET ch == buf[i]
             store(o) ==
                 IF Len(o) >= n THEN Ucs2Panic(o)
                 ELSE LET post == Append(o, ch)
                          br == bytes_read + len_utf8(ch)
                      IN  IF OutputFull(Len(post), n) THEN Ucs2Finish(post, br, n)
                          ELSE Ucs2Loop(buf, i + 1, post, br, n)
         IN  IF ch = "LF"
             THEN IF Len(out) >= n THEN Ucs2Panic(out)
                  ELSE LET pre == Append(out, "CR")
                       IN  IF OutputFull(Len(pre), n) THEN Ucs2Finish(pre, bytes_read, n)
                           ELSE store(pre)
             ELSE store(out)

\* utf8_to_ucs2(buf, output) with output.len() = n.
utf8_to_ucs2(buf, n) ==
    LET iter == from_bytes(buf)
    IN  IF iter.kind = "Err"
        THEN [panic |-> FALSE, res |-> Err(io_error("InvalidInput", "Invalid Output buffer")),
              units |-> <<>>]
        ELSE Ucs2Loop(iter.val, 1, <<>>, 0, n)

\* simple_text_output_write(protocol, buf): r is the status output_string
\* returns.  `called` says whether output_string was reached.
simple_text_output_write(buf, r) ==
    LET c == utf8_to_ucs2(buf, MAX_BUFFER_SIZE \div 2)
    IN  IF c.res.kind = "Err" THEN [res |-> c.res, called |-> FALSE, units |-> <<>>]
        ELSE IF is_error(r) THEN [res |-> Err(io_error("Other", r)), called |-> TRUE,
                                  units |-> c.units]
        ELSE [res |-> c.res, called |-> TRUE, units |-> c.units]

\* os::current_exe(): unsupported().
current_exe == Err(io_error("Unsupported", "operation not supported on this platform"))

\* os::getenv(key): None, whatever the variable store holds.
getenv(key, store) == [some |-> FALSE, v |-> "none"]

\* crate::env::var(key): the value getenv finds, or VarError::NotPresent.
env_var(key, store) ==
    LET o == getenv(key, store)
    IN  IF o.some THEN Ok(o.v) ELSE Err("NotPresent")

\* What the spawning side may have stored under `<program>_stdout` or
\* `<program>_stderr`: nothing, "null", or the identifier of a pipe.
KeyValues == {"absent", "null", "pipe"}

\* format!("{}_stdout", current_exe) and format!("{}_stderr", current_exe).
StreamKey(stream) ==
    IF stream = "stdout" THEN "_stdout" ELSE IF stream = "stderr" THEN "_stderr" ELSE "_stdin"

StreamKeys == {"_stdout", "_stderr", "_stdin"}

\* The variable store as getenv would find it: key -> Some(value) or None.
StoreLookup(store, key) == store[key]

\* The buffers written: empty, plain, with a line feed, with a character of
\* two bytes, and not UTF-8.
StdBufs == {<<>>, <<"a">>, <<"LF", "a">>, <<"a", "e2">>, <<"bad", "a">>}

\* Statuses output_string answers with.
OutputStringStatuses == {"SUCCESS", "WARN_UNKNOWN_GLYPH", "UNSUPPORTED"}

NoStdCall == [stream |-> "none", buf |-> <<>>, res |-> NoResult, table |-> FALSE,
              consoled |-> FALSE, piped |-> FALSE, units |-> <<>>,
              n |-> 0, input |-> FALSE, key |-> "none"]

StdioOff == [pc |-> "off", store |-> [k \in StreamKeys |-> "absent"],
             calls |-> 0, outputs |-> 0, piped |-> 0, last |-> NoStdCall]

\* The `<program>_stdin` key holds "null" or nothing: Command::stdin has no
\* pipe variant.
StdioInputs ==
    {[StdioOff EXCEPT !.pc = "on", !.store = st] :
        st \in {f \in [StreamKeys -> KeyValues] : f["_stdin"] # "pipe"}}

\* Where <Stdin as io::Read>::read can leave with an error, in the order of
\* the code, and "none" when it does not.
StdinExits == <<"table", "con_in", "con_out", "boot_services", "small",
                "reset", "wait", "key", "echo", "none">>

\* The key strokes read: a plain character, the enter key, a character of
\* two bytes of UTF-8.
KeyStrokes == {"a", "CR", "e2"}

\* The lengths of the buffers handed to read.
StdinBufLens == {0, 1, 3, 4}

\* What read returns when it leaves at the given exit with key stroke ch.
StdinResult(exit, ch) ==
    CASE exit = "table" -> Err(io_error("NotFound", "Global System Table"))
      [] exit = "con_in" -> Err(io_error("NotFound", "ConIn"))
      [] exit = "con_out" -> Err(io_error("NotFound", "ConOut"))
      [] exit = "boot_services" -> Err(io_error("NotFound", "Boot Services"))
      [] exit = "small" -> Err(io_error("InvalidInput", "Buffer too small"))
      [] exit = "reset" -> Err(io_error("InvalidInput", "Device Error"))
      [] exit = "wait" -> Err(io_error("Other", "Could not wait for event"))
      [] exit = "key" -> Err(io_error("InvalidInput", "Error in Reading Keystroke"))
      [] exit = "echo" -> Err(io_error("InvalidInput", "Device Error"))
      [] OTHER -> Ok(len_utf8(ch))

\* The exits that lie behind the first call on the console input.
TouchesInput(exit) == exit \in {"reset", "wait", "key", "echo", "none"}

----------------------------------------------------------------------------
\* process::Command.  A string is a sequence of parts, so that P_stdout is
\* <<P, "_stdout">>.

Programs == {"a.efi", "b.efi"}

Suffixes == {"_stdin", "_stdout", "_stderr"}

EnvKeys == {<<p, x>> : p \in Programs, x \in Suffixes}

\* Option<OsString>::None, and a key CommandEnv holds no value for.
NoString == <<>>

\* CommandEnv::set(key, value).
env_set(env, key, value) == [env EXCEPT ![key] = value]

\* The key `program + suffix` and the identifier `program + suffix + "_pipe"`.
KeyOf(program, suffix) == <<program, suffix>>

PipeIdOf(program, suffix) == <<program, suffix, "_pipe">>

\* Command::stdin(stdin): MakePipe is todo!().
stdin(c, a) ==
    CASE a = "Inherit" -> c
      [] a = "Null" -> [c EXCEPT !.env = env_set(@, KeyOf(c.program, "_stdin"), <<"null">>)]
      [] OTHER -> [c EXCEPT !.panicked = TRUE]

\* Variant: MakePipe stores the identifier in the environment only.
MutStdoutForgetsKey(c, a) ==
    CASE a = "Inherit" -> c
      [] a = "Null" -> [c EXCEPT !.env = env_set(@, KeyOf(c.program, "_stdout"), <<"null">>)]
      [] OTHER -> [c EXCEPT !.env = env_set(@, KeyOf(c.program, "_stdout"),
                                            PipeIdOf(c.program, "_stdout"))]

\* Command::stdout(stdout).
stdout(c, a) ==
    CASE a = "Inherit" -> c
      [] a = "Null" -> [c EXCEPT !.env = env_set(@, KeyOf(c.program, "_stdout"), <<"null">>)]
      [] OTHER -> [c EXCEPT !.env = env_set(@, KeyOf(c.program, "_stdout"),
                                            PipeIdOf(c.program, "_stdout")),
                            !.stdout_key = PipeIdOf(c.program, "_stdout")]

\* Command::stderr(stderr).
stderr(c, a) ==
    CASE a = "Inherit" -> c
      [] a = "Null" -> [c EXCEPT !.env = env_set(@, KeyOf(c.program, "_stderr"), <<"null">>)]
      [] OTHER -> [c EXCEPT !.env = env_set(@, KeyOf(c.program, "_stderr"),
                                            PipeIdOf(c.program, "_stderr")),
                            !.stderr_key = PipeIdOf(c.program, "_stderr")]

\* Command::new(program), before any call.
CommandNew(program) ==
    [program |-> program, env |-> [k \in EnvKeys |-> NoString],
     stdout_key |-> NoString, stderr_key |-> NoString, stdin_key |-> NoString,
     panicked |-> FALSE]

NoCmdCall == [op |-> "none", a |-> "none", before |-> CommandNew("none")]

CmdOff == [pc |-> "off", c |-> CommandNew("none"), calls |-> 0, last |-> NoCmdCall]

CmdInputs == {[CmdOff EXCEPT !.pc = "on", !.c = CommandNew(p)] : p \in Programs}

\* Buffer lengths beyond the range of the model's integers: a usize is four
\* limbs of 16 bits, most significant first, a u32 is two.
LimbValues == {0, 1, TwoPow16 - 1}
UsizeValues == {<<a, b, c, d>> : a \in {0, 1}, b \in {0, TwoPow16 - 1}, c \in LimbValues,
                                d \in LimbValues}
NoU32 == <<0, 0>>

\* Variant: a length that does not fit is clamped to u32::MAX.
MutAsU32Saturating(x) ==
    IF x[1] # 0 \/ x[2] # 0 THEN <<TwoPow16 - 1, TwoPow16 - 1>> ELSE <<x[3], x[4]>>

\* `buf.len() as u32`: the low 32 bits.
as_u32(x) == <<x[3], x[4]>>

\* `x as usize` of a u32.
as_usize(x) == <<0, 0, x[1], x[2]>>

NoWideRec == [push |-> FALSE, urgent |-> FALSE, data_length |-> NoU32,
              fragment_count |-> 0, fragment_length |-> NoU32]

\* tcp4::TransmitData and its one FragmentData as transmit(buf) fills them,
\* len = buf.len().
TransmitRecordWide(len) ==
    LET buf_size == as_u32(len)
    IN  [push |-> TRUE, urgent |-> FALSE, data_length |-> buf_size,
         fragment_count |-> 1, fragment_length |-> buf_size]

\* tcp4::ReceiveData and its one FragmentData as receive(buf) fills them.
ReceiveRecordWide(len) ==
    LET buf_size == as_u32(len)
    IN  [push |-> FALSE, urgent |-> FALSE, data_length |-> buf_size,
         fragment_count |-> 1, fragment_length |-> buf_size]

\* Command lines: sequences of UCS-2 code units; "a" stands for every unit
\* that is not a space, a tab, a quote or a backslash.
CodeUnits == {"a", "SPACE", "TAB", "QUOTE", "BACKSLASH"}
Blanks == {"SPACE", "TAB"}

\* Ucs2Units::advance_while(pred): the number of units it advances over.
RECURSIVE advance_while(_, _)
advance_while(rest, S) ==
    IF rest # <<>> /\ Head(rest) \in S THEN 1 + advance_while(Tail(rest), S) ELSE 0

\* The units left after k have been taken.
Skip(rest, k) == SubSeq(rest, k + 1, Len(rest))

\* iter::repeat(w).take(k).
Repeat(w, k) == [i \in 1..k |-> w]

\* The loop over the executable name: a quote toggles in_quotes, a blank
\* outside quotes ends the name, everything else is taken literally.
RECURSIVE ExeLoop(_, _, _)
ExeLoop(rest, cur, in_quotes) ==
    IF rest = <<>> THEN [rest |-> <<>>, cur |-> cur]
    ELSE LET w == Head(rest)
         IN  IF w = "QUOTE" THEN ExeLoop(Tail(rest), cur, ~in_quotes)
             ELSE IF w \in Blanks /\ ~in_quotes THEN [rest |-> Tail(rest), cur |-> cur]
             ELSE ExeLoop(Tail(rest), Append(cur, w), in_quotes)

NoParse == [phase |-> "none", rest |-> <<>>, cur |-> <<>>, in_quotes |-> FALSE,
            ret_val |-> <<>>]

\* parse_lp_cmd_line up to the loop over the arguments: the test for a null
\* or empty command line, then the executable name.
ParseExe(null, line, exe_name) ==
    IF null \/ line = <<>>
    THEN [NoParse EXCEPT !.phase = "done", !.ret_val = <<exe_name>>]
    ELSE LET e == ExeLoop(line, <<>>, FALSE)
         IN  [NoParse EXCEPT !.phase = "args",
                             !.rest = Skip(e.rest, advance_while(e.rest, Blanks)),
                             !.ret_val = <<e.cur>>]

\* Variant: a quote after backslashes is never escaped.
MutEscapesQuoteNever(backslash_count) == FALSE

\* `backslash_count % 2 == 1`: the quote after the backslashes is escaped.
EscapesQuote(backslash_count) == backslash_count % 2 = 1

\* One pass of `while let Some(w) = code_units.next()` from state st, whose
\* rest is not empty.
ArgStep(st) ==
    LET w == Head(st.rest)
        r == Tail(st.rest)
    IN  IF w \in Blanks /\ ~st.in_quotes
        THEN [st EXCEPT !.ret_val = Append(@, st.cur), !.cur = <<>>,
                        !.rest = Skip(r, advance_while(r, Blanks))]
        ELSE IF w = "BACKSLASH"
        THEN LET k == advance_while(r, {"BACKSLASH"})
                 backslash_count == k + 1
                 r2 == Skip(r, k)
             IN  IF r2 # <<>> /\ Head(r2) = "QUOTE"
                 THEN IF EscapesQuote(backslash_count)
                      THEN [st EXCEPT !.cur = @ \o Repeat("BACKSLASH", backslash_count \div 2)
                                                \o <<"QUOTE">>,
                                      !.rest = Tail(r2)]
                      ELSE [st EXCEPT !.cur = @ \o Repeat("BACKSLASH", backslash_count \div 2),
                                      !.rest = r2]
                 ELSE [st EXCEPT !.cur = @ \o Repeat("BACKSLASH", backslash_count),
                                 !.rest = r2]
        ELSE IF w = "QUOTE" /\ st.in_quotes
        THEN IF r = <<>> THEN [st EXCEPT !.rest = <<>>]
             ELSE IF Head(r) = "QUOTE"
             THEN [st EXCEPT !.cur = Append(@, "QUOTE"), !.rest = Tail(r)]
             ELSE [st EXCEPT !.in_quotes = FALSE, !.rest = r]
        ELSE IF w = "QUOTE" THEN [st EXCEPT !.in_quotes = TRUE, !.rest = r]
        ELSE [st EXCEPT !.cur = Append(@, w), !.rest = r]

\* After the loop: the final argument is pushed if there is one.
ArgEnd(st) ==
    [st EXCEPT !.phase = "done",
               !.ret_val = IF st.cur # <<>> \/ st.in_quotes THEN Append(@, st.cur) ELSE @]

\* The pure computations checked on their own: nothing computed yet.
PfOff ==
    [fn |-> "none", done |-> FALSE,
     len |-> <<0, 0, 0, 0>>, rec |-> NoWideRec, submitted |-> FALSE, cause |-> "none",
     buf |-> <<>>, n |-> 0, out |-> [panic |-> FALSE, res |-> Ok(0), units |-> <<>>],
     null |-> FALSE, line |-> <<>>, exe_name |-> <<>>, p |-> NoParse, prev |-> NoParse,
     last |-> "none", afterEven |-> FALSE, wasAfterEven |-> FALSE]

SbInputs == {[SbOff EXCEPT !.pc = "on", !.binding = b] : b \in ServiceBindings}

RtOff == [pc |-> "off", tx |-> <<>>, rx |-> <<>>, layout |-> "apart", wire |-> <<>>,
          txRet |-> NoResult, rxRet |-> NoResult, regions |-> <<>>]

\* The round trips tried: N bytes, written in one fragmentation and read in
\* another one.
RtInputs ==
    {x \in {[RtOff EXCEPT !.pc = "start", !.tx = t, !.rx = r, !.layout = l] :
                t \in UNION {Compositions(n) : n \in 2..MaxBytes},
                r \in UNION {Compositions(n) : n \in 2..MaxBytes},
                l \in Layouts} :
        SumLen(x.tx) = SumLen(x.rx) /\ x.tx # x.rx}

----------------------------------------------------------------------------
\* No arguments, no address.
NoAddr == <<"none", 0>>

NoArgs == [use_default_address |-> FALSE, active_flag |-> FALSE,
           station_addr |-> NoAddr, subnet_mask |-> "none", remote_addr |-> NoAddr]

NoSock == [st |-> "none", protocol |-> <<"tcp4", NullHandle>>,
           service_binding |-> NoBinding, child_handle |-> NullHandle]

IdleCall ==
    [op |-> "idle", self |-> 0, pc |-> "idle", inDrop |-> FALSE, idx |-> 0,
     closeRet |-> "none", closePath |-> "none", destroyRet |-> "none", abort |-> FALSE,
     tok |-> 0, status |-> "ABORTED", signalled |-> FALSE,
     rec |-> NoRec, sent |-> NoRec, bufSize |-> 0, regions |-> <<>>,
     new_child_handle |-> -1,
     waited |-> "no", statusRead |-> FALSE, fwStatus |-> "none", fwLen |-> -1,
     fw |-> <<>>, self0 |-> NoSock, nsock0 |-> 0,
     args |-> NoArgs, mode |-> ConfigData(NoArgs), addr |-> NoAddr, submit |-> "none",
     event |-> "none", live0 |-> <<0, 0>>]

NoRet ==
    [op |-> "none", self |-> 0, inDrop |-> FALSE, kind |-> "none", val |-> 0,
     err |-> [kind |-> "none", code |-> "none"], path |-> "none",
     waited |-> "no", statusRead |-> FALSE, fwStatus |-> "none", fwLen |-> -1,
     bufSize |-> 0, regions |-> <<>>, sent |-> NoRec, tok |-> 0, fw |-> <<>>,
     signalled |-> FALSE,
     new_child_handle |-> -1, self0 |-> NoSock, nsock0 |-> 0,
     closeRet |-> "none", closePath |-> "none", destroyRet |-> "none",
     args |-> NoArgs, mode |-> ConfigData(NoArgs), addr |-> NoAddr, submit |-> "none",
     event |-> "none", live0 |-> <<0, 0>>]

AdapterInit ==
    /\ sock = [i \in SockIds |-> NoSock]
    /\ nextHandle = 1
    /\ call = IdleCall
    /\ ret = NoRet
    /\ outstanding = {}
    /\ liveEvents = {}
    /\ liveRecords = {}
    /\ nops = 0
    /\ obtained = {}
    /\ destroyCalls = [h \in Handles |-> 0]
    /\ lifeLog = [i \in SockIds |-> <<>>]
    /\ lastConfig = [i \in SockIds |-> "none"]
    /\ panicked = FALSE
    /\ afterClose = [i \in SockIds |-> "open"]

Init ==
    /\ AdapterInit /\ rt = RtOff /\ sb = SbOff /\ chan = ChanOff /\ stdio = StdioOff
    /\ cmd = CmdOff /\ pf = PfOff

Idle == call.op = "idle" /\ ~panicked
Live(s) == sock[s].st = "live"
CanInvoke == Idle /\ nops < MaxOps

\* Number of Tcp4Protocol values constructed so far.
Constructed == Cardinality({i \in SockIds : sock[i].st # "none"})

\* The slot the next constructed Tcp4Protocol value goes to.
NewSlot == CHOOSE i \in SockIds : sock[i].st = "none" /\ \A j \in 1..(i - 1) : sock[j].st # "none"

\* The record of an operation's return.
RetOf(c, res, path) ==
    [op |-> c.op, self |-> c.self, inDrop |-> c.inDrop, kind |-> res.kind,
     val |-> res.val, err |-> res.err, path |-> path, waited |-> c.waited,
     statusRead |-> c.statusRead, fwStatus |-> c.fwStatus, fwLen |-> c.fwLen,
     bufSize |-> c.bufSize, regions |-> c.regions, sent |-> c.sent, tok |-> c.tok,
     fw |-> c.fw,
     signalled |-> c.signalled, new_child_handle |-> c.new_child_handle,
     self0 |-> c.self0, nsock0 |-> c.nsock0,
     closeRet |-> c.closeRet, closePath |-> c.closePath, destroyRet |-> c.destroyRet,
     args |-> c.args, mode |-> c.mode, addr |-> c.addr, submit |-> c.submit,
     event |-> c.event, live0 |-> c.live0]

\* The operation with activation c returns res on the given path; inside
\* drop() control goes back to drop().
Exit(c, res, path) ==
    /\ ret' = RetOf(c, res, path)
    /\ call' = IF c.inDrop
               THEN [IdleCall EXCEPT !.op = "drop", !.self = c.self, !.pc = "step",
                                     !.idx = c.idx + 1, !.closeRet = res.kind,
                                     !.closePath = path, !.destroyRet = c.destroyRet,
                                     !.self0 = c.self0, !.nsock0 = c.nsock0]
               ELSE IdleCall

FwName(op) ==
    CASE op \in {"transmit", "transmit_vectored"} -> "transmit"
      [] op \in {"receive", "receive_vectored"} -> "receive"
      [] op = "config" -> "configure"
      [] op \in {"remote_socket", "station_socket"} -> "get_mode_data"
      [] OTHER -> op

\* Variant: the firmware call is issued again when the firmware is out of
\* resources.
MutFwCallsRetry(op, r) ==
    IF r = "OUT_OF_RESOURCES" THEN <<FwName(op), FwName(op)>> ELSE <<FwName(op)>>

\* The firmware calls one invocation of op issues on the socket's protocol, r
\* the status the first call returned: config_raw / accept_raw / transmit_raw /
\* receive_raw / ((*protocol).close) is called once and its status returned.
FwCalls(op, r) == <<FwName(op)>>

\* Variant: the status cell of a new token starts as SUCCESS.
MutTokenStatusSuccess == "SUCCESS"

\* tcp4::CompletionToken { event, status: Status::ABORTED }.
TokenStatusInit == "ABORTED"

\* A firmware call is issued on the protocol of slot s.
FwUse(s) == [afterClose EXCEPT ![s] = IF @ = "closed" THEN "used" ELSE @]

\* The part of accept / transmit / receive / close up to the return of the
\* firmware call: Event::create, the token with status ABORTED, the record
\* (VariableSizeType::from_size) and the firmware call itself.
Begin(op, s, inDrop, idx, abort, bufSize, rec, regions) ==
    \E ev \in EventCreateOutcomes :
    LET c0 == [IdleCall EXCEPT !.op = op, !.self = s, !.inDrop = inDrop, !.idx = idx,
                               !.abort = abort, !.bufSize = bufSize, !.regions = regions,
                               !.self0 = sock[s], !.nsock0 = Constructed,
                               !.destroyRet = IF inDrop THEN call.destroyRet ELSE "none",
                               !.event = IF is_error(ev) THEN "failed" ELSE "created",
                               !.live0 = <<Cardinality(liveEvents), Cardinality(liveRecords)>>]
        tok == IF inDrop THEN nops ELSE nops + 1
        c1 == [c0 EXCEPT !.tok = tok, !.status = TokenStatusInit]
        c2(r) == [c1 EXCEPT !.rec = rec, !.sent = rec, !.fw = FwCalls(op, r),
                            !.submit = IF is_error(r) THEN "rejected" ELSE "accepted"]
        logged(issued) ==
            IF op = "close"
            THEN [lifeLog EXCEPT ![s] = @ \o (IF issued THEN <<"close", "fw_close">>
                                                          ELSE <<"close">>)]
            ELSE lifeLog
    IN
    IF AfterEventCreate(ev) = "return"
    THEN /\ Exit(c0, Err(status_to_io_error(ev)), "event_fail")
         /\ lifeLog' = logged(FALSE)
         /\ UNCHANGED <<outstanding, liveEvents, liveRecords, afterClose>>
    ELSE
    \/ \E al \in FromSizeOutcomes :
          /\ op \in IoOps
          /\ is_error(al)
          /\ Exit(c1, Err(status_to_io_error(al)), "alloc_fail")
          /\ lifeLog' = logged(FALSE)
          /\ liveEvents' = ExitEvents(op, tok, liveEvents \cup {tok})
          /\ UNCHANGED <<outstanding, liveRecords, afterClose>>
    \/ \E r \in Statuses :
          /\ lifeLog' = logged(TRUE)
          /\ afterClose' = FwUse(s)
          /\ IF AfterSubmit(r) = "return"
             THEN /\ Exit(c2(r), raw_result(r), "sync_reject")
                  /\ liveEvents' = ExitEvents(op, tok, liveEvents \cup {tok})
                  /\ liveRecords' = ExitRecords(op, tok, IF op \in IoOps
                                                         THEN liveRecords \cup {tok}
                                                         ELSE liveRecords)
                  /\ UNCHANGED outstanding
             ELSE /\ call' = [c2(r) EXCEPT !.pc = AfterSubmit(r)]
                  /\ outstanding' = outstanding \cup {[tok |-> tok, op |-> op, self |-> s]}
                  /\ liveEvents' = liveEvents \cup {tok}
                  /\ liveRecords' = IF op \in IoOps THEN liveRecords \cup {tok} ELSE liveRecords
                  /\ ret' = NoRet

\* What Begin leaves alone besides nops.
BeginFrame == <<sock, nextHandle, obtained, destroyCalls, lastConfig, panicked>>

----------------------------------------------------------------------------
\* Tcp4Protocol::create(service_binding).
Create(b) ==
    /\ CanInvoke
    /\ nops' = nops + 1
    /\ \E o \in OpenProtocolOutcomes, r \in Statuses, h \in {NullHandle, nextHandle},
          o2 \in OpenProtocolOutcomes :
          \* outcomes of calls that are not reached are not enumerated twice
          /\ is_error(o) => r = "SUCCESS"
          /\ is_error(o) \/ is_error(r) => h = NullHandle
          /\ is_error(o) \/ is_error(r) \/ h = NullHandle => o2 = "SUCCESS"
          /\ LET child == create_child(o, r, h)
              gave == ~is_error(o) /\ ~is_error(r) /\ h # NullHandle
              made == with_child_handle(b, child.val, o2)
              c == [IdleCall EXCEPT !.op = "create", !.nsock0 = Constructed,
                                    !.new_child_handle = IF gave THEN h ELSE -1,
                                    !.fwStatus = IF is_error(o) THEN "none" ELSE r,
                                    !.fw = IF is_error(o) THEN <<>> ELSE <<"create_child">>]
             IN
              /\ nextHandle' = IF gave THEN nextHandle + 1 ELSE nextHandle
              /\ IF child.kind = "Err"
                 THEN /\ ret' = RetOf(c, child, "create_child_fail")
                      /\ UNCHANGED <<sock, obtained>>
                 ELSE /\ obtained' = obtained \cup {child.val}
                      /\ IF made.kind = "Err"
                         THEN /\ ret' = RetOf(c, made, "open_fail")
                              /\ UNCHANGED sock
                         ELSE /\ ret' = RetOf([c EXCEPT !.self = NewSlot], Ok(NewSlot), "ok")
                              /\ sock' = [sock EXCEPT ![NewSlot] = made.val]
              /\ lifeLog' = IF child.kind = "Ok" /\ made.kind = "Ok"
                            THEN [lifeLog EXCEPT ![NewSlot] = <<"create">>]
                            ELSE lifeLog
    /\ UNCHANGED <<call, outstanding, liveEvents, liveRecords, destroyCalls,
                   lastConfig, panicked>>
    /\ UNCHANGED <<afterClose, sideVars>>

\* Tcp4Protocol::config(...).
Config(s, a) ==
    /\ CanInvoke /\ Live(s)
    /\ nops' = nops + 1
    /\ \E r \in Statuses :
          /\ ret' = RetOf([IdleCall EXCEPT !.op = "config", !.self = s, !.sent = ConfigData(a),
                                           !.args = a, !.fwStatus = r,
                                           !.fw = FwCalls("config", r), !.self0 = sock[s],
                                           !.nsock0 = Constructed],
                          raw_result(r), IF is_error(r) THEN "sync_reject" ELSE "ok")
          /\ lastConfig' = [lastConfig EXCEPT ![s] = raw_result(r).kind]
    /\ afterClose' = FwUse(s)
    /\ UNCHANGED <<sock, nextHandle, call, outstanding, liveEvents, liveRecords,
                   obtained, destroyCalls, lifeLog, panicked>>
    /\ UNCHANGED sideVars

\* Tcp4Protocol::remote_socket() and Tcp4Protocol::station_socket(): one
\* get_mode_data call on the protocol.
AddressQuery(s, op) ==
    /\ CanInvoke /\ Live(s)
    /\ nops' = nops + 1
    /\ \E r \in Statuses, m \in ModeConfigs :
          /\ is_error(r) => m = ConfigData(CHOOSE a \in ConfigArgs : a.active_flag)
          /\ LET g == get_config_data(r, m)
                 res == IF op = "remote_socket" THEN remote_socket(g) ELSE station_socket(g)
             IN  ret' = RetOf([IdleCall EXCEPT !.op = op, !.self = s, !.fwStatus = r,
                                              !.mode = m, !.fw = FwCalls(op, r),
                                              !.addr = IF res.kind = "Ok" THEN res.val ELSE NoAddr,
                                              !.self0 = sock[s], !.nsock0 = Constructed],
                              [res EXCEPT !.val = Unit],
                              IF is_error(r) THEN "sync_reject" ELSE "ok")
    /\ afterClose' = FwUse(s)
    /\ UNCHANGED <<sock, nextHandle, call, outstanding, liveEvents, liveRecords,
                   obtained, destroyCalls, lifeLog, lastConfig, panicked>>
    /\ UNCHANGED sideVars

RemoteSocket(s) == AddressQuery(s, "remote_socket")

StationSocket(s) == AddressQuery(s, "station_socket")

\* Tcp4Protocol::connect: todo!().
Connect(s) ==
    /\ CanInvoke /\ Live(s)
    /\ nops' = nops + 1
    /\ panicked' = TRUE
    /\ ret' = [NoRet EXCEPT !.op = "connect", !.self = s, !.kind = "panic", !.path = "panic"]
    /\ UNCHANGED <<sock, nextHandle, call, outstanding, liveEvents, liveRecords, obtained,
                   destroyCalls, lifeLog, lastConfig>>
    /\ UNCHANGED <<afterClose, sideVars>>

\* Tcp4Protocol::accept, up to the return of accept_raw.
Accept(s) ==
    /\ CanInvoke /\ Live(s)
    /\ nops' = nops + 1
    /\ Begin("accept", s, FALSE, 0, FALSE, 0, NoRec, <<>>)
    /\ UNCHANGED BeginFrame
    /\ UNCHANGED sideVars

\* Tcp4Protocol::transmit(buf), up to the return of transmit_raw.
Transmit(s, n) ==
    /\ CanInvoke /\ Live(s)
    /\ nops' = nops + 1
    /\ Begin("transmit", s, FALSE, 0, FALSE, U32(n), TransmitRecord(n), <<n>>)
    /\ UNCHANGED BeginFrame
    /\ UNCHANGED sideVars

\* Tcp4Protocol::transmit_vectored(buf), up to the return of transmit_raw.
TransmitVectored(s, regions) ==
    /\ CanInvoke /\ Live(s)
    /\ nops' = nops + 1
    /\ Begin("transmit_vectored", s, FALSE, 0, FALSE, Len(regions) * SizeOfIoSlice,
             TransmitVectoredRecord(regions), regions)
    /\ UNCHANGED BeginFrame
    /\ UNCHANGED sideVars

\* Tcp4Protocol::receive(buf), up to the return of receive_raw.
Receive(s, n) ==
    /\ CanInvoke /\ Live(s)
    /\ nops' = nops + 1
    /\ Begin("receive", s, FALSE, 0, FALSE, U32(n), ReceiveRecord(n), <<n>>)
    /\ UNCHANGED BeginFrame
    /\ UNCHANGED sideVars

\* Tcp4Protocol::receive_vectored(buf), up to the return of receive_raw.
ReceiveVectored(s, regions) ==
    /\ CanInvoke /\ Live(s)
    /\ nops' = nops + 1
    /\ Begin("receive_vectored", s, FALSE, 0, FALSE, U32(SizeOfSliceRef),
             ReceiveVectoredRecord(regions), regions)
    /\ UNCHANGED BeginFrame
    /\ UNCHANGED sideVars

\* Tcp4Protocol::close(abort_on_close) called by the program, up to the
\* return of the firmware close.
Close(s, abort) ==
    /\ CanInvoke /\ Live(s)
    /\ nops' = nops + 1
    /\ Begin("close", s, FALSE, 0, abort, 0, NoRec, <<>>)
    /\ UNCHANGED BeginFrame
    /\ UNCHANGED sideVars

----------------------------------------------------------------------------
\* The firmware completes the token of the operation in progress: it writes
\* the status cell (or leaves it), fills in the result and signals the event.
FwSignal ==
    /\ ~panicked
    /\ call.op \in TokenOps
    /\ [tok |-> call.tok, op |-> call.op, self |-> call.self] \in outstanding
    /\ outstanding' = outstanding \ {[tok |-> call.tok, op |-> call.op, self |-> call.self]}
    /\ \E st \in Statuses \cup {"unwritten"} :
          LET c == [call EXCEPT !.signalled = TRUE, !.fwStatus = st,
                                !.status = IF st = "unwritten" THEN @ ELSE st]
              good == st # "unwritten" /\ ~is_error(st)
          IN  \/ /\ ~good \/ call.op = "close"
                 /\ call' = c
                 /\ UNCHANGED nextHandle
              \/ /\ good /\ call.op \in IoOps
                 /\ \E n \in FwReport(call.rec.data_length) :
                       call' = [c EXCEPT !.rec.data_length = n, !.fwLen = n]
                 /\ UNCHANGED nextHandle
              \/ /\ good /\ call.op = "accept"
                 /\ \E h \in {NullHandle, nextHandle} :
                       /\ call' = [c EXCEPT !.new_child_handle = h]
                       /\ nextHandle' = IF h = NullHandle THEN nextHandle ELSE nextHandle + 1
    /\ UNCHANGED <<sock, ret, liveEvents, liveRecords, nops, obtained,
                   destroyCalls, lifeLog, lastConfig, panicked>>
    /\ UNCHANGED <<afterClose, sideVars>>

\* The firmware completes a token whose operation has already returned: the
\* token, its record and its event have been released.
FwSignalStale ==
    /\ ~panicked
    /\ \E o \in outstanding :
          /\ o.tok # call.tok
          /\ outstanding' = outstanding \ {o}
    /\ UNCHANGED <<sock, nextHandle, call, ret, liveEvents, liveRecords, nops,
                   obtained, destroyCalls, lifeLog, lastConfig, panicked>>
    /\ UNCHANGED <<afterClose, sideVars>>

\* Variant: the wait gives up and returns Ok although nothing was signalled.
MutWaitOkUnsignalled ==
    /\ ~panicked
    /\ call.pc = "wait"
    /\ call' = [call EXCEPT !.pc = "read", !.waited = "ok"]
    /\ UNCHANGED <<sock, nextHandle, ret, outstanding, liveEvents, liveRecords,
                   nops, obtained, destroyCalls, lifeLog, lastConfig, panicked>>
    /\ UNCHANGED <<afterClose, sideVars>>

\* Event::wait returns Ok: the event has been signalled.
WaitOk ==
    /\ ~panicked
    /\ call.pc = "wait" /\ call.signalled
    /\ call' = [call EXCEPT !.pc = "read", !.waited = "ok"]
    /\ UNCHANGED <<sock, nextHandle, ret, outstanding, liveEvents, liveRecords,
                   nops, obtained, destroyCalls, lifeLog, lastConfig, panicked>>
    /\ UNCHANGED <<afterClose, sideVars>>

\* Event::wait returns an error: `?` leaves the operation, dropping the
\* event, the token and the record.
WaitErr ==
    /\ ~panicked
    /\ call.pc = "wait"
    /\ \E e \in WaitErrors :
          Exit([call EXCEPT !.waited = "err", !.fwStatus = "none", !.fwLen = -1],
               Err(status_to_io_error(e)), "wait_fail")
    /\ liveEvents' = ExitEvents(call.op, call.tok, liveEvents)
    /\ liveRecords' = ExitRecords(call.op, call.tok, liveRecords)
    /\ UNCHANGED <<sock, nextHandle, outstanding, nops, obtained, destroyCalls,
                   lifeLog, lastConfig, panicked>>
    /\ UNCHANGED <<afterClose, sideVars>>

\* transmit / transmit_vectored / receive / receive_vectored after the wait.
CompleteIo ==
    /\ ~panicked
    /\ call.pc = "read" /\ call.op \in IoOps
    /\ LET c == [call EXCEPT !.statusRead = TRUE]
           r == call.status
       IN  IF is_error(r)
           THEN Exit(c, Err(status_to_io_error(r)), "error_status")
           ELSE Exit(c, Ok(IF FwName(call.op) = "transmit" THEN TransmitResult(c)
                                                          ELSE ReceiveResult(c)), "ok")
    /\ liveEvents' = ExitEvents(call.op, call.tok, liveEvents)
    /\ liveRecords' = ExitRecords(call.op, call.tok, liveRecords)
    /\ UNCHANGED <<sock, nextHandle, outstanding, nops, obtained, destroyCalls,
                   lifeLog, lastConfig, panicked>>
    /\ UNCHANGED <<afterClose, sideVars>>

\* close after the wait.
CompleteClose ==
    /\ ~panicked
    /\ call.pc = "read" /\ call.op = "close"
    /\ LET c == [call EXCEPT !.statusRead = TRUE]
           r == call.status
       IN  IF is_error(r)
           THEN Exit(c, Err(status_to_io_error(r)), "error_status")
           ELSE Exit(c, Ok(Unit), "ok")
    /\ afterClose' = IF ~is_error(call.status) /\ afterClose[call.self] = "open"
                     THEN [afterClose EXCEPT ![call.self] = "closed"]
                     ELSE afterClose
    /\ liveEvents' = ExitEvents(call.op, call.tok, liveEvents)
    /\ UNCHANGED <<sock, nextHandle, outstanding, liveRecords, nops, obtained,
                   destroyCalls, lifeLog, lastConfig, panicked>>
    /\ UNCHANGED sideVars

\* accept after the wait.
CompleteAccept ==
    /\ ~panicked
    /\ call.pc = "read" /\ call.op = "accept"
    /\ LET c == [call EXCEPT !.statusRead = TRUE]
           r == call.status
           child == AcceptChild(call.new_child_handle)
       IN  IF is_error(r)
           THEN /\ Exit(c, Err(status_to_io_error(r)), "error_status")
                /\ UNCHANGED <<sock, obtained>>
           ELSE IF child.kind = "Err"
           THEN /\ Exit(c, child, "null_child")
                /\ UNCHANGED <<sock, obtained>>
           ELSE \E o \in OpenProtocolOutcomes :
                   LET made == with_child_handle(AcceptBinding(sock[call.self]), child.val, o)
                   IN  /\ obtained' = obtained \cup {child.val}
                       /\ IF made.kind = "Err"
                          THEN /\ Exit(c, made, "open_fail")
                               /\ UNCHANGED sock
                          ELSE /\ Exit(c, Ok(NewSlot), "ok")
                               /\ sock' = [sock EXCEPT ![NewSlot] = made.val]
    /\ lifeLog' = IF sock'[NewSlot].st = "live"
                  THEN [lifeLog EXCEPT ![NewSlot] = <<"accept">>]
                  ELSE lifeLog
    /\ liveEvents' = ExitEvents(call.op, call.tok, liveEvents)
    /\ UNCHANGED <<nextHandle, outstanding, liveRecords, nops, destroyCalls,
                   lastConfig, panicked>>
    /\ UNCHANGED <<afterClose, sideVars>>

----------------------------------------------------------------------------
\* A Tcp4Protocol value goes out of scope: drop() starts.
Drop(s) ==
    /\ CanInvoke /\ Live(s)
    /\ nops' = nops + 1
    /\ sock' = [sock EXCEPT ![s].st = "dropping"]
    /\ call' = [IdleCall EXCEPT !.op = "drop", !.self = s, !.pc = "step", !.idx = 1,
                                !.self0 = sock[s], !.nsock0 = Constructed]
    /\ ret' = NoRet
    /\ UNCHANGED <<nextHandle, outstanding, liveEvents, liveRecords,
                   obtained, destroyCalls, lifeLog, lastConfig, panicked>>
    /\ UNCHANGED <<afterClose, sideVars>>

InDropStep(name) ==
    /\ ~panicked
    /\ call.op = "drop" /\ call.pc = "step"
    /\ call.idx <= Len(DropSteps)
    /\ DropContinues(call.closeRet)
    /\ DropSteps[call.idx] = name

\* drop(): `let _ = self.close(true);`, up to the return of the firmware close.
DropClose ==
    /\ InDropStep("close")
    /\ Begin("close", call.self, TRUE, call.idx, TRUE, 0, NoRec, <<>>)
    /\ UNCHANGED nops
    /\ UNCHANGED BeginFrame
    /\ UNCHANGED sideVars

\* drop(): `let _ = self.service_binding.destroy_child(self.child_handle);`.
DropDestroyChild ==
    /\ InDropStep("destroy_child")
    /\ LET s == call.self
           h == sock[s].child_handle
       IN  \E o \in OpenProtocolOutcomes, r \in Statuses :
              /\ is_error(o) => r = "SUCCESS"
              /\ destroyCalls' = [destroyCalls EXCEPT ![h] = @ + 1]
              /\ lifeLog' = [lifeLog EXCEPT ![s] = Append(@, "destroy_child")]
              /\ call' = [call EXCEPT !.idx = @ + 1, !.destroyRet = destroy_child(o, r).kind,
                                       !.fw = IF is_error(o) THEN @ ELSE Append(@, "destroy_child")]
    /\ UNCHANGED <<sock, nextHandle, ret, outstanding, liveEvents, liveRecords,
                   nops, obtained, lastConfig, panicked>>
    /\ UNCHANGED <<afterClose, sideVars>>

\* drop() returns: the value is gone.
DropEnd ==
    /\ ~panicked
    /\ call.op = "drop" /\ call.pc = "step"
    /\ call.idx > Len(DropSteps) \/ ~DropContinues(call.closeRet)
    /\ sock' = [sock EXCEPT ![call.self].st = "dropped"]
    /\ ret' = RetOf(call, Ok(Unit), "ok")
    /\ call' = IdleCall
    /\ UNCHANGED <<nextHandle, outstanding, liveEvents, liveRecords, nops,
                   obtained, destroyCalls, lifeLog, lastConfig, panicked>>
    /\ UNCHANGED <<afterClose, sideVars>>

----------------------------------------------------------------------------
Next ==
    \/ \E b \in ServiceBindings : Create(b)
    \/ \E s \in SockIds, a \in ConfigArgs : Config(s, a)
    \/ \E s \in SockIds : RemoteSocket(s)
    \/ \E s \in SockIds : StationSocket(s)
    \/ \E s \in SockIds : Connect(s)
    \/ \E s \in SockIds : Accept(s)
    \/ \E s \in SockIds, n \in BufLens : Transmit(s, n)
    \/ \E s \in SockIds, regions \in RegionLists : TransmitVectored(s, regions)
    \/ \E s \in SockIds, n \in BufLens : Receive(s, n)
    \/ \E s \in SockIds, regions \in RegionLists : ReceiveVectored(s, regions)
    \/ \E s \in SockIds, abort \in BOOLEAN : Close(s, abort)
    \/ \E s \in SockIds : Drop(s)
    \/ FwSignal
    \/ FwSignalStale
    \/ WaitOk
    \/ WaitErr
    \/ CompleteIo
    \/ CompleteClose
    \/ CompleteAccept
    \/ DropClose
    \/ DropDestroyChild
    \/ DropEnd

Spec == Init /\ [][Next]_vars

----------------------------------------------------------------------------
\* The loopback round trip.  The firmware delivers the bytes a transmit
\* record describes, in order, to the receive that follows; a record that
\* fails its parameter check may be rejected with INVALID_PARAMETER.

RtInit ==
    /\ AdapterInit /\ rt \in RtInputs /\ sb = SbOff /\ chan = ChanOff /\ stdio = StdioOff
    /\ cmd = CmdOff /\ pf = PfOff

\* transmit_vectored(buf) on the writing side, completed by the firmware.
RtTransmitVectored ==
    /\ rt.pc = "start"
    /\ LET rec == TransmitVectoredRecord(rt.tx)
       IN  \/ rt' = [rt EXCEPT !.pc = "sent",
                               !.wire = WireOf(rec, rt.tx, rt.layout, 1),
                               !.txRet = Ok(TransmitResult([rec |-> rec]))]
           \/ /\ ~RecordConsistent(rec)
              /\ rt' = [rt EXCEPT !.pc = "done", !.txRet = raw_result("INVALID_PARAMETER")]
    /\ UNCHANGED <<adapterVars, sb, chan, stdio, cmd, pf>>

\* receive_vectored(buf) on the reading side, completed by the firmware.
RtReceiveVectored ==
    /\ rt.pc = "sent"
    /\ LET rec == ReceiveVectoredRecord(rt.rx)
           n == IF rec.data_length < Len(rt.wire) THEN rec.data_length ELSE Len(rt.wire)
           bytes == SubSeq(rt.wire, 1, n)
       IN  \/ rt' = [rt EXCEPT !.pc = "done",
                               !.wire = SubSeq(rt.wire, n + 1, Len(rt.wire)),
                               !.rxRet = Ok(ReceiveResult([rec |-> [rec EXCEPT !.data_length = n]])),
                               !.regions = RegionsAfter(rec, rt.rx, rt.layout, bytes)]
           \/ /\ ~RecordConsistent(rec)
              /\ rt' = [rt EXCEPT !.pc = "done", !.rxRet = raw_result("INVALID_PARAMETER")]
    /\ UNCHANGED <<adapterVars, sb, chan, stdio, cmd, pf>>

RtNext ==
    \/ RtTransmitVectored
    \/ RtReceiveVectored

SpecRT == RtInit /\ [][RtNext]_vars

----------------------------------------------------------------------------
\* A ServiceBinding value called directly.  The value holds a GUID and a
\* handle and no protocol pointer, so each call starts with its own lookup.

SbInit ==
    /\ AdapterInit /\ rt = RtOff /\ chan = ChanOff /\ stdio = StdioOff
    /\ cmd = CmdOff /\ pf = PfOff
    /\ sb \in SbInputs

SbFrame == <<adapterVars, rt, chan, stdio, cmd, pf>>

\* service_binding.create_child().
SbCreateChild ==
    /\ sb.pc = "on" /\ sb.calls < MaxOps
    /\ \E o \in OpenProtocolOutcomes, r \in Statuses, h \in {NullHandle, 1} :
          /\ is_error(o) => r = "SUCCESS"
          /\ is_error(o) \/ is_error(r) => h = NullHandle
          /\ sb' = [sb EXCEPT !.calls = @ + 1, !.lookups = @ + 1,
                              !.fw = IF ProtocolResolved(o) THEN Append(@, "create_child") ELSE @,
                              !.last = [op |-> "create_child", o |-> o,
                                        r |-> IF ProtocolResolved(o) THEN r ELSE "none",
                                        h |-> h, invoked |-> ProtocolResolved(o),
                                        res |-> create_child(o, r, h)]]
    /\ UNCHANGED SbFrame

\* service_binding.destroy_child(child_handle).
SbDestroyChild ==
    /\ sb.pc = "on" /\ sb.calls < MaxOps
    /\ \E o \in OpenProtocolOutcomes, r \in Statuses :
          /\ is_error(o) => r = "SUCCESS"
          /\ sb' = [sb EXCEPT !.calls = @ + 1, !.lookups = @ + 1,
                              !.fw = IF ProtocolResolved(o) THEN Append(@, "destroy_child") ELSE @,
                              !.last = [op |-> "destroy_child", o |-> o,
                                        r |-> IF ProtocolResolved(o) THEN r ELSE "none",
                                        h |-> 1, invoked |-> ProtocolResolved(o),
                                        res |-> destroy_child(o, r)]]
    /\ UNCHANGED SbFrame

SbNext ==
    \/ SbCreateChild
    \/ SbDestroyChild

SpecBinding == SbInit /\ [][SbNext]_vars

----------------------------------------------------------------------------
\* One AnonPipe.  open_protocol on the pipe's own handle finds the protocol
\* the constructor installed for as long as the AnonPipe lives.

ChanInit ==
    /\ AdapterInit /\ rt = RtOff /\ sb = SbOff /\ stdio = StdioOff
    /\ cmd = CmdOff /\ pf = PfOff
    /\ chan \in ChanInputs

ChanFrame == <<adapterVars, rt, sb, stdio, cmd, pf>>

PipeCanCall == chan.kind # "off" /\ chan.calls < MaxPipeOps

\* AnonPipe::write(buf) with a buffer of n bytes.
PipeWrite(n) ==
    /\ PipeCanCall
    /\ Len(chan.q.items) + n <= RingCap
    /\ LET b == [i \in 1..n |-> chan.written + i]
           p == ProtocolWrite(chan.kind, chan.q, b)
       IN  chan' = [chan EXCEPT !.q = p.q, !.calls = @ + 1,
                                !.written = @ + (Len(p.q.items) - Len(chan.q.items)),
                                !.prev = chan.last,
                                !.last = [NoPipeCall EXCEPT !.op = "write", !.n = n, !.b = b,
                                                            !.before = chan.q.items,
                                                            !.res = PipeResult(p.status, p.buf_size)]]
    /\ UNCHANGED ChanFrame

\* AnonPipe::read(buf) with a buffer of n bytes.
PipeRead(n) ==
    /\ PipeCanCall
    /\ LET p == ProtocolRead(chan.kind, chan.q, n)
       IN  chan' = [chan EXCEPT !.q = p.q, !.calls = @ + 1,
                                !.got = @ \o p.data,
                                !.prev = chan.last,
                                !.last = [NoPipeCall EXCEPT !.op = "read", !.n = n,
                                                            !.before = chan.q.items,
                                                            !.res = PipeResult(p.status, p.buf_size),
                                                            !.out = p.data]]
    /\ UNCHANGED ChanFrame

\* AnonPipe::read_to_end(buf): one read of buf.capacity() bytes to the start
\* of the Vec's buffer, then set_len.
PipeReadToEnd(v) ==
    /\ PipeCanCall
    /\ \E g \in SpareBytes :
          LET len == Len(v.bytes)
              size == ProtocolSize(chan.kind, chan.q)
              cap == reserve_exact(len, v.cap, size)
              p == ProtocolRead(chan.kind, chan.q, cap)
              newLen == ReadToEndLen(len, p.buf_size)
              after == [i \in 1..newLen |-> IF i <= Len(p.data) THEN p.data[i]
                                            ELSE IF i <= len THEN v.bytes[i]
                                            ELSE g]
          IN  /\ newLen > len \/ g = Junk
              /\ chan' = [chan EXCEPT !.q = p.q, !.calls = @ + 1,
                                      !.got = @ \o p.data,
                                      !.prev = chan.last,
                                      !.last = [NoPipeCall EXCEPT
                                                   !.op = "read_to_end", !.n = size,
                                                   !.before = chan.q.items,
                                                   !.res = PipeResult(p.status, p.buf_size),
                                                   !.out = p.data, !.sink0 = v.bytes,
                                                   !.sink = IF is_error(p.status) THEN v.bytes
                                                            ELSE after]]
    /\ UNCHANGED ChanFrame

ChanNext ==
    \/ \E n \in 0..MaxWrite : PipeWrite(n)
    \/ \E n \in 0..MaxWrite : PipeRead(n)
    \/ \E v \in Sinks : PipeReadToEnd(v)

SpecPipe == ChanInit /\ [][ChanNext]_vars

----------------------------------------------------------------------------
\* Writes to Stdout and Stderr of a program whose spawner stored (or did not
\* store) the stream keys.

StdioInit ==
    /\ AdapterInit /\ rt = RtOff /\ sb = SbOff /\ chan = ChanOff
    /\ cmd = CmdOff /\ pf = PfOff
    /\ stdio \in StdioInputs

StdioFrame == <<adapterVars, rt, sb, chan, cmd, pf>>

\* <Stdout as io::Write>::write(buf) and <Stderr as io::Write>::write(buf):
\* table says whether get_system_table() finds the table, dev whether the
\* ConOut (StdErr) pointer in it is non-null, r is output_string's status.
StdWrite(stream, buf) ==
    /\ stdio.pc = "on" /\ stdio.calls < MaxStdWrites
    /\ LET exe == current_exe
           v == env_var(StreamKey(stream), stdio.store)
           redirected == exe.kind = "Ok" /\ v.kind = "Ok"
       IN  IF redirected
           THEN IF v.val = "null"
                THEN stdio' = [stdio EXCEPT !.calls = @ + 1,
                                            !.last = [NoStdCall EXCEPT !.stream = stream,
                                                         !.buf = buf, !.res = Ok(ByteLen(buf))]]
                ELSE stdio' = [stdio EXCEPT !.calls = @ + 1, !.piped = @ + ByteLen(buf),
                                            !.last = [NoStdCall EXCEPT !.stream = stream,
                                                         !.buf = buf, !.res = Ok(ByteLen(buf)),
                                                         !.piped = TRUE]]
           ELSE \E table \in BOOLEAN, dev \in BOOLEAN, r \in OutputStringStatuses :
                   /\ ~table => dev /\ r = "SUCCESS"
                   /\ ~dev => r = "SUCCESS"
                   /\ LET w == simple_text_output_write(buf, r)
                          res == IF ~table THEN Err(io_error("NotFound", "Global System Table"))
                                 ELSE IF ~dev THEN Err(io_error("NotFound", "ConOut / StdErr"))
                                 ELSE w.res
                          called == table /\ dev /\ w.called
                      IN  /\ called \/ r = "SUCCESS"
                          /\ stdio' = [stdio EXCEPT
                                          !.calls = @ + 1,
                                          !.outputs = IF called THEN @ + 1 ELSE @,
                                          !.last = [NoStdCall EXCEPT
                                                      !.stream = stream, !.buf = buf,
                                                      !.res = res, !.table = table,
                                                      !.consoled = called,
                                                      !.units = IF called THEN w.units ELSE <<>>]]
    /\ UNCHANGED StdioFrame

\* <Stdin as io::Read>::read(buf) with a buffer of n bytes.
StdinRead(n) ==
    /\ stdio.pc = "on" /\ stdio.calls < MaxStdWrites
    /\ LET exe == current_exe
           v == env_var(StreamKey("stdin"), stdio.store)
       IN  IF exe.kind = "Ok" /\ v.kind = "Ok" /\ v.val = "null"
           THEN stdio' = [stdio EXCEPT !.calls = @ + 1,
                                       !.last = [NoStdCall EXCEPT !.stream = "stdin", !.n = n,
                                                                  !.res = Ok(n)]]
           ELSE \E i \in DOMAIN StdinExits, ch \in KeyStrokes :
                   LET exit == StdinExits[i]
                   IN  /\ (exit = "small") = (n < 3 /\ i >= 5)
                       /\ n < 3 => i <= 5
                       /\ exit \notin {"echo", "none"} => ch = "a"
                       /\ stdio' = [stdio EXCEPT
                                       !.calls = @ + 1,
                                       !.outputs = IF exit = "none"
                                                   THEN @ + (IF ch = "CR" THEN 2 ELSE 1)
                                                   ELSE IF exit = "echo" THEN @ + 1 ELSE @,
                                       !.last = [NoStdCall EXCEPT
                                                   !.stream = "stdin", !.n = n,
                                                   !.res = StdinResult(exit, ch),
                                                   !.table = exit # "table",
                                                   !.input = TouchesInput(exit),
                                                   !.key = IF exit \in {"echo", "none"}
                                                           THEN ch ELSE "none"]]
    /\ UNCHANGED StdioFrame

StdioNext ==
    \/ \E stream \in {"stdout", "stderr"}, buf \in StdBufs : StdWrite(stream, buf)
    \/ \E n \in StdinBufLens : StdinRead(n)

SpecStdio == StdioInit /\ [][StdioNext]_vars

----------------------------------------------------------------------------
\* The stdio settings of one Command.

CmdInit ==
    /\ AdapterInit /\ rt = RtOff /\ sb = SbOff /\ chan = ChanOff /\ stdio = StdioOff
    /\ pf = PfOff
    /\ cmd \in CmdInputs

CmdFrame == <<adapterVars, rt, sb, chan, stdio, pf>>

CmdCanCall == cmd.pc = "on" /\ cmd.calls < MaxCmdOps /\ ~cmd.c.panicked

CmdCall(op, a, after) ==
    /\ CmdCanCall
    /\ cmd' = [cmd EXCEPT !.c = after, !.calls = @ + 1,
                          !.last = [op |-> op, a |-> a, before |-> cmd.c]]
    /\ UNCHANGED CmdFrame

CmdStdin(a) == CmdCall("stdin", a, stdin(cmd.c, a))

CmdStdout(a) == CmdCall("stdout", a, stdout(cmd.c, a))

CmdStderr(a) == CmdCall("stderr", a, stderr(cmd.c, a))

CmdNext ==
    \/ \E a \in {"Inherit", "Null", "MakePipe"} : CmdStdin(a)
    \/ \E a \in {"Inherit", "Null", "MakePipe"} : CmdStdout(a)
    \/ \E a \in {"Inherit", "Null", "MakePipe"} : CmdStderr(a)

SpecCommand == CmdInit /\ [][CmdNext]_vars

----------------------------------------------------------------------------
\* The pure computations, each applied once to inputs drawn at the start.

LenInputs ==
    {[PfOff EXCEPT !.fn = f, !.len = l] : f \in {"transmit", "receive"}, l \in UsizeValues}

\* The character buffers and the output sizes utf8_to_ucs2 is applied to.
Utf8Bufs == UNION {[1..k -> Chars] : k \in 0..MaxUcs2Chars}
Ucs2Inputs ==
    {[PfOff EXCEPT !.fn = "utf8_to_ucs2", !.buf = b, !.n = n] :
        b \in Utf8Bufs, n \in 0..MaxOutput}

\* The command lines parse_lp_cmd_line is applied to: a null pointer or a
\* string of code units; exe_name is called for a null or empty line only.
ExeNames == {<<>>, <<"a">>}
CmdLines == UNION {[1..k -> CodeUnits] : k \in 1..MaxCmdLen}
ParseInputs ==
    {[PfOff EXCEPT !.fn = "parse_lp_cmd_line", !.line = l, !.p.phase = "start"] :
        l \in CmdLines}
    \cup {[PfOff EXCEPT !.fn = "parse_lp_cmd_line", !.null = b, !.exe_name = e,
                        !.p.phase = "start"] : b \in BOOLEAN, e \in ExeNames}

PfInputs == LenInputs \cup Ucs2Inputs \cup ParseInputs

PfInit ==
    /\ AdapterInit /\ rt = RtOff /\ sb = SbOff /\ chan = ChanOff /\ stdio = StdioOff
    /\ cmd = CmdOff
    /\ pf \in PfInputs

PfFrame == <<adapterVars, rt, sb, chan, stdio, cmd>>

\* transmit(buf) / receive(buf) with buf.len() = pf.len, up to the firmware
\* call: the event, the record, then the call with the record filled in.
WideSubmit ==
    /\ pf.fn \in {"transmit", "receive"} /\ ~pf.done
    /\ \E ev \in EventCreateOutcomes, al \in FromSizeOutcomes :
          /\ is_error(ev) => al = "SUCCESS"
          /\ pf' = [pf EXCEPT
                       !.done = TRUE,
                       !.submitted = ~is_error(ev) /\ ~is_error(al),
                       !.cause = IF AfterEventCreate(ev) = "return" THEN "event"
                                 ELSE IF is_error(al) THEN "record" ELSE "none",
                       !.rec = IF is_error(ev) \/ is_error(al) THEN NoWideRec
                               ELSE IF pf.fn = "transmit" THEN TransmitRecordWide(pf.len)
                               ELSE ReceiveRecordWide(pf.len)]
    /\ UNCHANGED PfFrame

\* utf8_to_ucs2(buf, output) with output.len() = pf.n.
Utf8ToUcs2 ==
    /\ pf.fn = "utf8_to_ucs2" /\ ~pf.done
    /\ pf' = [pf EXCEPT !.done = TRUE, !.out = utf8_to_ucs2(pf.buf, pf.n)]
    /\ UNCHANGED PfFrame

\* A run of backslashes at the front of rest, and whether a quote follows it.
BackslashRun(rest) == advance_while(rest, {"BACKSLASH"})
QuoteAfterRun(rest) ==
    Len(rest) > BackslashRun(rest) /\ rest[BackslashRun(rest) + 1] = "QUOTE"

\* parse_lp_cmd_line: the test of the command line and the executable name.
ParseStart ==
    /\ pf.fn = "parse_lp_cmd_line" /\ pf.p.phase = "start"
    /\ LET st == ParseExe(pf.null, pf.line, pf.exe_name)
       IN  pf' = [pf EXCEPT !.p = st, !.prev = pf.p, !.last = "start",
                            !.done = st.phase = "done"]
    /\ UNCHANGED PfFrame

\* parse_lp_cmd_line: one pass of the loop over the arguments.
ParseArg ==
    /\ pf.fn = "parse_lp_cmd_line" /\ pf.p.phase = "args" /\ pf.p.rest # <<>>
    /\ pf' = [pf EXCEPT !.p = ArgStep(pf.p), !.prev = pf.p, !.last = "arg",
                        !.afterEven = /\ BackslashRun(pf.p.rest) >= 1
                                      /\ BackslashRun(pf.p.rest) % 2 = 0
                                      /\ QuoteAfterRun(pf.p.rest),
                        !.wasAfterEven = pf.afterEven]
    /\ UNCHANGED PfFrame

\* parse_lp_cmd_line: the loop has ended, the last argument is pushed.
ParseEnd ==
    /\ pf.fn = "parse_lp_cmd_line" /\ pf.p.phase = "args" /\ pf.p.rest = <<>>
    /\ pf' = [pf EXCEPT !.p = ArgEnd(pf.p), !.prev = pf.p, !.last = "end",
                        !.done = TRUE, !.afterEven = FALSE, !.wasAfterEven = FALSE]
    /\ UNCHANGED PfFrame

PfNext ==
    \/ WideSubmit
    \/ Utf8ToUcs2
    \/ ParseStart
    \/ ParseArg
    \/ ParseEnd

SpecPure == PfInit /\ [][PfNext]_vars


\* The adapter under the scheduling of its execution context: a wait whose
\* event has been signalled returns, and the code after the wait runs.
SpecFair ==
    /\ Spec
    /\ WF_vars(WaitOk)
    /\ WF_vars(CompleteIo)
    /\ WF_vars(CompleteClose)
    /\ WF_vars(CompleteAccept)

----------------------------------------------------------------------------
\* Properties.

Positions(L, x) == {i \in DOMAIN L : L[i] = x}

\* What the close(true) of slot s's drop() returned on, when that is known in
\* this state.
DropClosePath(s) ==
    IF ret.op = "drop" /\ ret.self = s THEN ret.closePath
    ELSE IF call.op = "drop" /\ call.self = s THEN call.closePath
    ELSE "none"

\* C1 as stated: on every path on which a Tcp4Protocol is destroyed, the
\* firmware close call has been issued for it before destroy_child is invoked.
C1_FwCloseIssuedBeforeDestroyChild ==
    \A s \in SockIds : \A i \in Positions(lifeLog[s], "destroy_child") :
        \E j \in 1..(i - 1) : lifeLog[s][j] = "fw_close"

\* C1 amended: on every path on which a Tcp4Protocol is destroyed, close(true)
\* is called directly before destroy_child and nothing is closed after it; the
\* firmware close call is issued before destroy_child unless the event of that
\* close could not be allocated, in which case no firmware close is issued.
C1_CloseCalledBeforeDestroyChild ==
    \A s \in SockIds : \A i \in Positions(lifeLog[s], "destroy_child") :
        /\ i > 1
        /\ lifeLog[s][i - 1] \in {"close", "fw_close"}
        /\ \A j \in (i + 1)..Len(lifeLog[s]) : lifeLog[s][j] \notin {"close", "fw_close"}
        /\ DropClosePath(s) = "event_fail" => lifeLog[s][i - 1] = "close"
        /\ DropClosePath(s) \notin {"none", "event_fail"} => lifeLog[s][i - 1] = "fw_close"

\* C1 witness: a socket whose config() failed has been dropped, with the
\* firmware close issued before destroy_child.
C1_Witness ==
    \E s \in SockIds :
        /\ sock[s].st = "dropped"
        /\ lastConfig[s] = "Err"
        /\ lifeLog[s] = <<"create", "close", "fw_close", "destroy_child">>

\* C2: drop() calls destroy_child whatever its close(true) returned (event
\* allocation failure, synchronous rejection, wait failure, error status), and
\* drop() returns normally whatever the two calls returned.
C2_DestroyChildAttemptedAfterClose ==
    /\ \A s \in SockIds :
          sock[s].st = "dropped" => Positions(lifeLog[s], "destroy_child") # {}
    /\ ret.op = "drop" =>
          /\ ret.kind = "Ok" /\ ret.err.kind = "none"
          /\ ret.closeRet \in {"Ok", "Err"}
          /\ ret.destroyRet \in {"Ok", "Err"}
          /\ ~panicked

\* C2 witness: a drop() whose close failed in the wait and whose destroy_child
\* failed too has returned.
C2_Witness ==
    /\ ret.op = "drop"
    /\ ret.closePath = "wait_fail" /\ ret.closeRet = "Err"
    /\ ret.destroyRet = "Err"
    /\ sock[ret.self].st = "dropped"

\* A Tcp4Protocol value that still owns child handle h exists.
Owned(h) ==
    \E s \in SockIds : sock[s].st \in {"live", "dropping"} /\ sock[s].child_handle = h

\* C3: every child handle obtained from the firmware is passed to
\* destroy_child exactly once: never twice, and once no value owns it any
\* more (also when open_protocol on the new handle failed) it has been passed.
C3_ChildDestroyedExactlyOnce ==
    \A h \in obtained :
        /\ destroyCalls[h] <= 1
        /\ (call.op = "idle" /\ ~Owned(h)) => destroyCalls[h] = 1

\* C4: however often close() was called on a socket, destroy_child has been
\* invoked for its child handle exactly once when the socket is dropped, and
\* not at all while it is alive.
C4_DestroyChildOnceDespiteCloses ==
    \A s \in SockIds :
        sock[s].st # "none" =>
            LET n == destroyCalls[sock[s].child_handle]
                m == Cardinality(Positions(lifeLog[s], "destroy_child"))
            IN  /\ n = m
                /\ sock[s].st = "live" => n = 0
                /\ sock[s].st = "dropped" => n = 1
                /\ n <= 1

\* C4 witness: a socket closed by the program and again by drop().
C4_Witness ==
    \E s \in SockIds :
        /\ sock[s].st = "dropped"
        /\ Cardinality(Positions(lifeLog[s], "close")) >= 2
        /\ destroyCalls[sock[s].child_handle] = 1

\* C5: accept, transmit(_vectored), receive(_vectored) and close read the
\* status cell only after Event::wait has returned Ok; on the paths that leave
\* before that the cell is not read.
C5_StatusReadOnlyAfterWait ==
    /\ ret.op \in TokenOps /\ ret.statusRead => ret.waited = "ok" /\ ret.signalled
    /\ ret.op \in TokenOps /\ ret.path \in {"event_fail", "alloc_fail", "sync_reject", "wait_fail"}
          => ~ret.statusRead
    /\ call.pc = "wait" => ~call.statusRead

\* C5 witness: an operation has read an error status after its wait returned.
C5_Witness ==
    /\ ret.op \in TokenOps
    /\ ret.statusRead /\ ret.waited = "ok"
    /\ ret.path = "error_status"

\* C6: while a transmit or receive token is with the firmware and not yet
\* signalled, its event, its record and the token itself are still allocated.
C6_ResourcesLiveUntilSignal ==
    \A o \in outstanding :
        o.op \in IoOps =>
            /\ o.tok \in liveEvents
            /\ o.tok \in liveRecords
            /\ call.tok = o.tok

\* C7: when the firmware completed a transmit with SUCCESS and the wait
\* returned, transmit(buf) returns Ok(n), n the data_length the firmware left
\* in the record: buf.len() if it reported that, the smaller value otherwise.
C7_TransmitReturnsReportedLength ==
    (ret.op = "transmit" /\ ret.waited = "ok" /\ ret.fwStatus = "SUCCESS") =>
        /\ ret.kind = "Ok"
        /\ ret.val = ret.fwLen
        /\ ret.fwLen = ret.bufSize => ret.val = ret.bufSize

\* C7 witness: the firmware reported fewer bytes than the buffer holds.
C7_Witness ==
    /\ ret.op = "transmit" /\ ret.fwStatus = "SUCCESS"
    /\ ret.kind = "Ok" /\ ret.val < ret.bufSize
    /\ ret.val = ret.fwLen

\* C8: when the firmware completed a receive with SUCCESS and the wait
\* returned, receive(buf) returns Ok(n), n the number of bytes the firmware
\* reports, also when n is smaller than buf.len() or 0.
C8_ReceiveReturnsReportedLength ==
    (ret.op = "receive" /\ ret.waited = "ok" /\ ret.fwStatus = "SUCCESS") =>
        /\ ret.kind = "Ok"
        /\ ret.val = ret.fwLen

\* C8 witness: the firmware placed no byte in a buffer that has room.
C8_Witness ==
    /\ ret.op = "receive" /\ ret.fwStatus = "SUCCESS"
    /\ ret.kind = "Ok" /\ ret.val = 0 /\ ret.bufSize > 0
    /\ ret.fwLen = 0

\* C9: an accept completed with SUCCESS and a null new child handle returns an
\* error of kind Other, without a panic and without constructing a socket.
C9_NullChildHandleIsOtherError ==
    (ret.op = "accept" /\ ret.waited = "ok" /\ ret.fwStatus = "SUCCESS"
        /\ ret.new_child_handle = NullHandle) =>
        /\ ret.kind = "Err"
        /\ ret.err.kind = "Other"
        /\ ~panicked
        /\ Constructed = ret.nsock0
        /\ NullHandle \notin obtained

\* C9 witness: such an accept has returned.
C9_Witness ==
    /\ ret.op = "accept" /\ ret.fwStatus = "SUCCESS"
    /\ ret.new_child_handle = NullHandle
    /\ ret.path = "null_child"

\* C10: a successful accept() returns a new socket that owns the child handle
\* the firmware provided, different from the listener's, with the listener's
\* ServiceBinding; the listener is unchanged and still usable; and dropping a
\* socket destroys no child of another socket.
C10_AcceptedSocketIsIndependent ==
    /\ (ret.op = "accept" /\ ret.kind = "Ok") =>
          LET n == ret.val
              l == ret.self
          IN  /\ n # l
              /\ sock[n].st = "live"
              /\ sock[n].child_handle = ret.new_child_handle
              /\ sock[n].child_handle # sock[l].child_handle
              /\ sock[n].protocol = ProtocolOn(ret.new_child_handle)
              /\ sock[n].service_binding = sock[l].service_binding
              /\ sock[l] = ret.self0
              /\ Live(l)
              /\ Constructed = ret.nsock0 + 1
    /\ \A s, t \in SockIds :
          (s # t /\ sock[s].st = "live" /\ sock[t].st \in {"dropping", "dropped"}) =>
              /\ sock[s].child_handle # sock[t].child_handle
              /\ destroyCalls[sock[s].child_handle] = 0

\* C10 witness: an accepted socket has been dropped and its listener lives on.
C10_Witness ==
    \E l, n \in SockIds :
        /\ lifeLog[l] = <<"create">> /\ Live(l)
        /\ sock[n].st = "dropped"
        /\ Len(lifeLog[n]) > 0 /\ lifeLog[n][1] = "accept"
        /\ sock[n].service_binding = sock[l].service_binding
        /\ destroyCalls[sock[n].child_handle] = 1
        /\ destroyCalls[sock[l].child_handle] = 0

----------------------------------------------------------------------------
\* Sum of the fragment_length fields of a record's fragment table.
FragmentSum(rec) ==
    SumLen([k \in 1..Len(rec.fragment_table) |-> rec.fragment_table[k].fragment_length])

\* C11: the record a transmit, transmit_vectored, receive or receive_vectored
\* submits to the firmware has data_length equal to the sum of the
\* fragment_length fields of its fragment table and fragment_count equal to
\* the number of regions the caller gave.
C11_RecordLengthsConsistent ==
    /\ (call.op \in IoOps /\ call.fw # <<>>) =>
          /\ call.sent.data_length = FragmentSum(call.sent)
          /\ call.sent.fragment_count = Len(call.regions)
    /\ (ret.op \in IoOps /\ ret.fw # <<>>) =>
          /\ ret.sent.data_length = FragmentSum(ret.sent)
          /\ ret.sent.fragment_count = Len(ret.regions)

\* C12: in the record transmit_vectored and receive_vectored submit, the i-th
\* fragment descriptor has the byte length of the caller's i-th region and
\* refers to that region, and data_length is the sum of the byte lengths of
\* the caller's regions.
C12_FragmentsDescribeRegions ==
    (ret.op \in {"transmit_vectored", "receive_vectored"} /\ ret.fw # <<>>) =>
        /\ Len(ret.sent.fragment_table) = Len(ret.regions)
        /\ \A i \in 1..Len(ret.regions) :
              /\ ret.sent.fragment_table[i].fragment_length = ret.regions[i]
              /\ ret.sent.fragment_table[i].fragment_buffer = <<"region", i>>
        /\ ret.sent.data_length = SumLen(ret.regions)

\* C13: N bytes written with transmit_vectored in one fragmentation and read
\* back with receive_vectored in another one arrive as the same N bytes:
\* receive_vectored returns N and the caller's regions hold bytes 1..N in order.
C13_RoundTripIsIdentity ==
    rt.pc = "done" =>
        /\ rt.rxRet.kind = "Ok"
        /\ rt.rxRet.val = SumLen(rt.tx)
        /\ rt.regions = [j \in 1..SumLen(rt.tx) |-> j]

\* C14: Closed is terminal: once a close() has completed with success on a
\* socket, no firmware configure, accept, transmit, receive or close call is
\* issued on that socket any more.
C14_NoFirmwareCallAfterClose ==
    \A s \in SockIds : afterClose[s] # "used"

\* C15: every public operation ends by returning Ok or Err; none panics.
C15_OperationsReturnResult ==
    /\ ~panicked
    /\ ret.kind \in {"none", "Ok", "Err"}

\* C16: at most one firmware operation submitted through a socket is
\* outstanding at any time, and an outstanding operation is the one of the
\* invocation in progress: accept, transmit, receive and close do not return
\* before the firmware has signalled the completion of what they submitted.
C16_OneOutstandingPerSocket ==
    /\ \A s \in SockIds : Cardinality({o \in outstanding : o.self = s}) <= 1
    /\ \A o \in outstanding : call.op = o.op /\ call.tok = o.tok /\ call.self = o.self

\* C17: every invocation of accept, transmit(_vectored), receive(_vectored)
\* and close has a notification event and a completion token of its own, the
\* token's status cell being ABORTED when the firmware call is issued: the
\* cell holds ABORTED until the firmware completes the token, the only event
\* alive is the one of the invocation in progress, and no token still with
\* the firmware from an earlier invocation is the token of this one.
C17_FreshEventAndTokenPerCall ==
    /\ (call.op \in TokenOps /\ call.pc = "wait" /\ ~call.signalled) => call.status = "ABORTED"
    /\ call.pc \in {"wait", "read"} => liveEvents = {call.tok}
    /\ call.pc \notin {"wait", "read"} => liveEvents = {}
    /\ \A o \in outstanding : o.tok = call.tok => (o.op = call.op /\ o.self = call.self)
    /\ \A o1, o2 \in outstanding : o1.tok = o2.tok => o1 = o2

\* C17 witness: an invocation waits on its own token, still ABORTED, while the
\* token of an earlier invocation is still with the firmware.
C17_Witness ==
    /\ call.op \in TokenOps /\ call.pc = "wait" /\ ~call.signalled
    /\ call.status = "ABORTED"
    /\ \E o \in outstanding : o.tok # call.tok

\* The status the code reads from the cell the firmware completed with st.
CellAfter(st) == IF st = "unwritten" THEN "ABORTED" ELSE st

C18_Safety ==
    /\ (ret.op \in TokenOps /\ ret.path \notin {"event_fail", "alloc_fail", "sync_reject"}) =>
          \/ ret.path = "wait_fail" /\ ret.waited = "err"
          \/ ret.signalled /\ ret.waited = "ok"
    /\ (ret.op \in TokenOps /\ ret.waited = "ok") =>
          /\ ret.path = "error_status" <=> is_error(CellAfter(ret.fwStatus))
          /\ ret.path = "error_status" =>
                ret.kind = "Err" /\ ret.err = status_to_io_error(CellAfter(ret.fwStatus))
          /\ ret.path = "ok" => ret.kind = "Ok"
    /\ call.pc \notin {"wait", "read"} => liveEvents = {} /\ liveRecords = {}

\* C18: once the firmware has accepted an accept, transmit, receive or close
\* request, the operation returns only after the firmware signalled the
\* completion event or the wait itself failed; when the firmware signals, the
\* operation does return, with the translation of the status in the token and
\* with its event and record released.
C18_ReturnsIffSignalled ==
    /\ []C18_Safety
    /\ (call.pc \in {"wait", "read"} /\ call.signalled) ~> (call.pc \notin {"wait", "read"})

\* C18 witness: a close the firmware completed has returned Ok, nothing left
\* allocated.
C18_Witness ==
    /\ ret.op = "close" /\ ret.path = "ok" /\ ret.kind = "Ok"
    /\ ret.signalled /\ ret.waited = "ok"
    /\ call.op = "idle" /\ liveEvents = {}

\* The operations that issue one firmware call on the socket's protocol.
SingleCallOps == TokenOps \cup {"config"}

\* C19: one invocation of config, accept, transmit(_vectored),
\* receive(_vectored) or close issues its firmware call at most once,
\* whatever status the firmware returns from the call or in the token.
C19_FirmwareCallIssuedAtMostOnce ==
    /\ ret.op \in SingleCallOps =>
          /\ Len(ret.fw) <= 1
          /\ \A i \in DOMAIN ret.fw : ret.fw[i] = FwName(ret.op)
          /\ ret.path \in {"sync_reject", "error_status", "wait_fail", "ok"} => Len(ret.fw) = 1
    /\ call.op \in SingleCallOps =>
          /\ Len(call.fw) <= 1
          /\ \A i \in DOMAIN call.fw : call.fw[i] = FwName(call.op)

\* C19 witness: the firmware rejected a transmit for lack of resources and the
\* call was not repeated.
C19_Witness ==
    /\ ret.op = "transmit" /\ ret.path = "sync_reject"
    /\ ret.err.kind = "OutOfMemory"
    /\ ret.fw = <<"transmit">>

\* C20: create_child gives the new child handle when the firmware reports no
\* error and a non-null handle; it fails with InvalidInput on
\* INVALID_PARAMETER, with OutOfMemory on OUT_OF_RESOURCES, with Other on
\* any other error status, and with Other on a null handle without error.
C20_CreateChildResults ==
    (ret.op = "create" /\ ret.fwStatus # "none") =>
        LET r == ret.fwStatus
            null == ret.new_child_handle = -1
        IN  /\ r = "INVALID_PARAMETER" =>
                  ret.kind = "Err" /\ ret.err.kind = "InvalidInput"
            /\ r = "OUT_OF_RESOURCES" =>
                  ret.kind = "Err" /\ ret.err.kind = "OutOfMemory"
            /\ (is_error(r) /\ r \notin {"INVALID_PARAMETER", "OUT_OF_RESOURCES"}) =>
                  ret.kind = "Err" /\ ret.err.kind = "Other"
            /\ is_error(r) => ret.path = "create_child_fail"
            /\ (~is_error(r) /\ null) =>
                  /\ ret.path = "create_child_fail"
                  /\ ret.kind = "Err" /\ ret.err.kind = "Other"
            /\ (~is_error(r) /\ ~null) =>
                  /\ ret.path \in {"ok", "open_fail"}
                  /\ ret.new_child_handle \in obtained
                  /\ ret.path = "ok" => sock[ret.val].child_handle = ret.new_child_handle

\* C20 witness: the firmware reported SUCCESS and stored a null handle.
C20_Witness ==
    /\ ret.op = "create" /\ ret.fwStatus = "SUCCESS"
    /\ ret.new_child_handle = -1
    /\ ret.kind = "Err" /\ ret.err.kind = "Other"

\* C21: destroy_child returns Ok when the firmware status is not an error and
\* maps the error statuses UNSUPPORTED, INVALID_PARAMETER and ACCESS_DENIED to
\* the kinds Unsupported, InvalidInput and PermissionDenied, and every other
\* error status to Other.
C21_DestroyChildResults ==
    sb.last.op = "destroy_child" /\ sb.last.invoked =>
        LET r == sb.last.r
            res == sb.last.res
        IN  /\ ~is_error(r) => res = Ok(Unit)
            /\ is_error(r) =>
                  /\ res.kind = "Err"
                  /\ res.err.kind = CASE r = "UNSUPPORTED" -> "Unsupported"
                                      [] r = "INVALID_PARAMETER" -> "InvalidInput"
                                      [] r = "ACCESS_DENIED" -> "PermissionDenied"
                                      [] OTHER -> "Other"

C21_Witness ==
    /\ sb.last.op = "destroy_child" /\ sb.last.invoked
    /\ sb.last.r = "ACCESS_DENIED"
    /\ sb.last.res.kind = "Err" /\ sb.last.res.err.kind = "PermissionDenied"

\* C22: create_child and destroy_child look the service-binding protocol up
\* on every call, and a call whose lookup fails returns the lookup's error
\* without invoking the firmware function.
C22_LookupOnEveryCall ==
    /\ sb.lookups = sb.calls
    /\ sb.last.op # "none" /\ is_error(sb.last.o) =>
          /\ ~sb.last.invoked
          /\ sb.last.res = Err(status_to_io_error(sb.last.o))
    /\ Len(sb.fw) <= sb.calls

C22_Witness ==
    /\ sb.calls >= 2 /\ sb.lookups = sb.calls
    /\ Len(sb.fw) = sb.calls - 1
    /\ is_error(sb.last.o) /\ ~sb.last.invoked
    /\ sb.last.res.kind = "Err"

\* C23: on a backed pipe that is empty, write(b) followed by read_to_end into
\* an empty sink leaves the sink equal to b, and read_to_end returns len(b).
C23_WriteThenReadToEnd ==
    /\ chan.kind = "backed"
    /\ chan.last.op = "read_to_end" /\ chan.last.sink0 = <<>>
    /\ chan.prev.op = "write" /\ chan.prev.before = <<>>
    => /\ chan.last.sink = chan.prev.b
       /\ chan.last.res = Ok(Len(chan.prev.b))

C23_Witness ==
    /\ chan.kind = "backed" /\ chan.calls > 2
    /\ chan.last.op = "read_to_end" /\ chan.last.sink0 = <<>>
    /\ chan.prev.op = "write" /\ chan.prev.before = <<>> /\ Len(chan.prev.b) = MaxWrite
    /\ chan.last.sink = chan.prev.b

\* C24: on the null pipe write(buf) returns Ok(buf.len()), read returns Ok(0),
\* the size is 0, and read_to_end returns Ok(0) and leaves the sink as it was.
C24_NullPipe ==
    chan.kind = "null" =>
        /\ ProtocolSize(chan.kind, chan.q) = 0
        /\ chan.last.op = "write" => chan.last.res = Ok(chan.last.n)
        /\ chan.last.op = "read" => chan.last.res = Ok(0) /\ chan.last.out = <<>>
        /\ chan.last.op = "read_to_end" =>
              chan.last.res = Ok(0) /\ chan.last.sink = chan.last.sink0

C24_Witness ==
    /\ chan.kind = "null"
    /\ chan.prev.op = "write" /\ chan.prev.n = MaxWrite /\ chan.prev.res = Ok(MaxWrite)
    /\ chan.last.op = "read_to_end" /\ chan.last.sink0 = <<9, 8>>
    /\ chan.last.sink = <<9, 8>>

\* C25: read_to_end on a backed pipe hands over everything queued in one
\* call: it returns the size the pipe had and leaves the queue empty,
\* wherever the queued bytes lie in the ring.
C25_ReadToEndDrainsAll ==
    chan.kind = "backed" /\ chan.last.op = "read_to_end" =>
        /\ chan.last.res = Ok(Len(chan.last.before))
        /\ chan.last.out = chan.last.before
        /\ chan.q.items = <<>>

C27_ReadIsFifo ==
    chan.kind = "backed" =>
        /\ chan.last.op = "read" =>
              /\ chan.last.res.kind = "Ok" /\ chan.last.res.val <= chan.last.n
              /\ chan.last.res.val <= Len(chan.last.before)
              /\ chan.last.out = SubSeq(chan.last.before, 1, chan.last.res.val)
              /\ chan.q.items = SubSeq(chan.last.before, chan.last.res.val + 1,
                                       Len(chan.last.before))
        /\ \A i \in 1..Len(chan.got) : chan.got[i] = i
        /\ ProtocolSize(chan.kind, chan.q) = chan.written - Len(chan.got)

C27_Witness ==
    /\ chan.kind = "backed" /\ chan.last.op = "read"
    /\ Len(chan.got) > chan.last.res.val
    /\ chan.last.res.val > 0 /\ chan.last.res.val < chan.last.n
    /\ chan.q.items # <<>>

\* C28: config hands the firmware a configuration with type of service 8,
\* time to live 255, a null control option and the caller's addresses, ports,
\* mask and flags unchanged, and returns Ok exactly when the firmware status
\* is not an error, else the translated error.
C28_ConfigPassesArguments ==
    ret.op = "config" =>
        /\ ret.sent = [type_of_service |-> 8, time_to_live |-> 255,
                       control_option |-> "null",
                       access_point |->
                          [use_default_address |-> ret.args.use_default_address,
                           station_address |-> ret.args.station_addr[1],
                           station_port |-> ret.args.station_addr[2],
                           subnet_mask |-> ret.args.subnet_mask,
                           remote_address |-> ret.args.remote_addr[1],
                           remote_port |-> ret.args.remote_addr[2],
                           active_flag |-> ret.args.active_flag]]
        /\ ret.fw = <<"configure">>
        /\ (ret.kind = "Ok") = ~is_error(ret.fwStatus)
        /\ ret.kind = "Ok" => ret.val = Unit
        /\ is_error(ret.fwStatus) => ret.err = status_to_io_error(ret.fwStatus)

C28_Witness ==
    /\ ret.op = "config" /\ ret.kind = "Ok" /\ ret.fwStatus = "WARN_UNKNOWN_GLYPH"
    /\ ret.args.active_flag /\ ret.sent.access_point.remote_port = 7
    /\ lastConfig[ret.self] = "Ok"

C30_StreamKeyBeforeConsole ==
    stdio.last.stream \in {"stdout", "stderr"} =>
        LET k == StoreLookup(stdio.store, StreamKey(stdio.last.stream))
        IN  /\ k = "null" => /\ stdio.last.res = Ok(ByteLen(stdio.last.buf))
                             /\ ~stdio.last.consoled
            /\ k = "pipe" => stdio.last.piped /\ ~stdio.last.consoled
            /\ stdio.last.consoled => k = "absent"

\* C31: with the key <program>_stdin set to "null", Stdin.read(buf) returns
\* Ok(0) for every buffer and does not touch the console input.
C31_NullStdinReadsNothing ==
    stdio.last.stream = "stdin" /\ StoreLookup(stdio.store, StreamKey("stdin")) = "null" =>
        /\ stdio.last.res = Ok(0)
        /\ ~stdio.last.input

\* C32: on a Command for program P, stdin / stdout / stderr with Null records
\* the key P_stdin / P_stdout / P_stderr with the value "null"; stdout and
\* stderr with MakePipe record the key with the identifier P_stdout_pipe /
\* P_stderr_pipe and keep that identifier for spawn; Inherit records nothing
\* and leaves the environment of the command as it was.
C32_CommandStdioKeys ==
    cmd.last.op # "none" /\ ~(cmd.last.op = "stdin" /\ cmd.last.a = "MakePipe") =>
        LET P == cmd.c.program
            b == cmd.last.before
            key == <<P, IF cmd.last.op = "stdin" THEN "_stdin"
                        ELSE IF cmd.last.op = "stdout" THEN "_stdout" ELSE "_stderr">>
            id == <<P, IF cmd.last.op = "stdout" THEN "_stdout" ELSE "_stderr", "_pipe">>
        IN  /\ cmd.last.a = "Inherit" => cmd.c = b
            /\ cmd.last.a = "Null" =>
                  /\ cmd.c.env[key] = <<"null">>
                  /\ \A k \in EnvKeys \ {key} : cmd.c.env[k] = b.env[k]
                  /\ cmd.c.stdout_key = b.stdout_key /\ cmd.c.stderr_key = b.stderr_key
            /\ cmd.last.a = "MakePipe" =>
                  /\ cmd.c.env[key] = id
                  /\ \A k \in EnvKeys \ {key} : cmd.c.env[k] = b.env[k]
                  /\ cmd.last.op = "stdout" =>
                        cmd.c.stdout_key = id /\ cmd.c.stderr_key = b.stderr_key
                  /\ cmd.last.op = "stderr" =>
                        cmd.c.stderr_key = id /\ cmd.c.stdout_key = b.stdout_key

C32_Witness ==
    /\ cmd.c.program = "b.efi"
    /\ cmd.last.op = "stdout" /\ cmd.last.a = "MakePipe"
    /\ cmd.c.env[<<"b.efi", "_stdout">>] = <<"b.efi", "_stdout", "_pipe">>
    /\ cmd.c.stdout_key = <<"b.efi", "_stdout", "_pipe">>
    /\ cmd.c.env[<<"b.efi", "_stdin">>] = <<"null">>
    /\ cmd.c.env[<<"a.efi", "_stdout">>] = <<>>

\* C33: when the firmware call of accept, transmit, receive or close itself
\* returns an error status, the operation returns that status translated at
\* once: it does not wait for the event, does not read the status cell of the
\* token, and accept constructs no socket.
C33_SyncRejectReturnsAtOnce ==
    /\ call.submit # "rejected"
    /\ ret.op \in TokenOps /\ ret.submit = "rejected" =>
          /\ ret.kind = "Err"
          /\ is_error(ret.err.code) /\ ret.err = status_to_io_error(ret.err.code)
          /\ ret.waited = "no" /\ ~ret.statusRead
          /\ ret.fwStatus = "none"
          /\ ret.op = "accept" => Constructed = ret.nsock0 /\ ret.new_child_handle = -1

C33_Witness ==
    /\ ret.op = "accept" /\ ret.submit = "rejected"
    /\ ret.err.kind = "PermissionDenied" /\ ret.err.code = "ACCESS_DENIED"
    /\ ret.waited = "no" /\ Constructed = ret.nsock0

\* C34: when the notification event of accept, transmit, receive or close
\* cannot be allocated, the operation returns that error, issues no call of
\* the firmware stream protocol, and leaves the socket (protocol handle,
\* binding, child handle) as it was.
C34_EventFailureIssuesNothing ==
    /\ call.op \in TokenOps => call.event = "created"
    /\ ret.op \in TokenOps /\ ret.event = "failed" =>
          /\ ret.kind = "Err" /\ ret.err = status_to_io_error("OUT_OF_RESOURCES")
          /\ ret.fw = <<>> /\ ret.submit = "none"
          /\ ret.waited = "no" /\ ~ret.statusRead
          /\ ~ret.inDrop => sock[ret.self] = ret.self0

C34_Witness ==
    /\ ret.op = "transmit" /\ ret.event = "failed" /\ ret.path = "event_fail"
    /\ ret.kind = "Err" /\ ret.fw = <<>>
    /\ sock[ret.self].st = "live" /\ sock[ret.self] = ret.self0

\* C35: accept, transmit, receive and close return Ok only when the status
\* cell holds a non-error value after the wait returned, and return the
\* translation of the status in the cell when it holds an error; when the
\* firmware signals the event without writing the cell, the operation returns
\* the error for ABORTED, never Ok.
C35_OkOnlyOnNonErrorStatus ==
    /\ ret.op \in TokenOps /\ ret.kind = "Ok" =>
          /\ ret.waited = "ok" /\ ret.statusRead /\ ret.signalled
          /\ ret.fwStatus \in Statuses /\ ~is_error(ret.fwStatus)
    /\ ret.op \in TokenOps /\ ret.waited = "ok" /\ is_error(CellAfter(ret.fwStatus)) =>
          ret.kind = "Err" /\ ret.err = status_to_io_error(CellAfter(ret.fwStatus))
    /\ ret.op \in TokenOps /\ ret.waited = "ok" /\ ret.fwStatus = "unwritten" =>
          ret.kind = "Err" /\ ret.err = status_to_io_error("ABORTED")

C35_Witness ==
    /\ ret.op = "receive" /\ ret.waited = "ok" /\ ret.signalled
    /\ ret.fwStatus = "unwritten"
    /\ ret.kind = "Err" /\ ret.err = status_to_io_error("ABORTED")

\* C36: read_to_end(sink) appends: for a sink holding bytes P and a backed
\* pipe holding bytes Q, after a successful call the sink holds P followed by
\* Q and the call returns the length of Q.
C36_ReadToEndAppends ==
    (chan.kind = "backed" /\ chan.last.op = "read_to_end" /\ chan.last.res.kind = "Ok") =>
        /\ chan.last.sink = chan.last.sink0 \o chan.last.before
        /\ chan.last.res = Ok(Len(chan.last.before))

\* C37: on every exit path of accept, transmit(_vectored), receive(_vectored)
\* and close (success, synchronous rejection, wait failure, error completion
\* status) the event and the record the call created are released before it
\* returns: as many events and records are live after the call as before it.
C37_ResourcesReleasedAtExit ==
    ret.op \in TokenOps =>
        /\ ret.tok \notin liveEvents /\ ret.tok \notin liveRecords
        /\ call.pc \notin {"wait", "read"} =>
              /\ Cardinality(liveEvents) = ret.live0[1]
              /\ Cardinality(liveRecords) = ret.live0[2]

C37_Witness ==
    /\ ret.op = "transmit_vectored" /\ ret.path = "wait_fail"
    /\ ret.tok \in {o.tok : o \in outstanding}
    /\ liveEvents = {} /\ liveRecords = {} /\ ret.live0 = <<0, 0>>

\* C38: transmit(buf) and receive(buf) submit a record whose data length and
\* single fragment length are buf.len() reduced modulo 2^32: equal to
\* buf.len() below 2^32, the low 32 bits above, and no error is returned on
\* account of the length.
C38_LengthsModulo32Bits ==
    (pf.fn \in {"transmit", "receive"} /\ pf.done) =>
        /\ pf.submitted =>
              /\ pf.rec.data_length = <<pf.len[3], pf.len[4]>>
              /\ pf.rec.fragment_length = <<pf.len[3], pf.len[4]>>
              /\ pf.rec.fragment_count = 1
              /\ (pf.len[1] = 0 /\ pf.len[2] = 0) => as_usize(pf.rec.data_length) = pf.len
        /\ ~pf.submitted => pf.cause \in {"event", "record"}
        /\ pf.submitted <=> pf.cause = "none"

C38_Witness ==
    /\ pf.fn = "transmit" /\ pf.done /\ pf.submitted
    /\ pf.len = <<1, 0, 0, 1>>
    /\ pf.rec.data_length = <<0, 1>> /\ pf.rec.fragment_length = <<0, 1>>

\* The units of the output before the terminator that are input characters.
NotCR(u) == u # "CR"
Ucs2Emitted(units) == SelectSeq(SubSeq(units, 1, Len(units) - 1), NotCR)

\* C39: for valid UTF-8 input and an output buffer of at least 2 units,
\* utf8_to_ucs2 never stores outside the output buffer, puts a CR before
\* every LF it emits, leaves a 0 terminator directly after the last emitted
\* unit, and returns the number of input bytes of the characters it emitted,
\* at most buf.len().
C39_Utf8ToUcs2Safe ==
    (pf.fn = "utf8_to_ucs2" /\ pf.done /\ pf.n >= 2
        /\ \A i \in DOMAIN pf.buf : pf.buf[i] # "bad") =>
        /\ ~pf.out.panic /\ pf.out.res.kind = "Ok"
        /\ Len(pf.out.units) >= 1 /\ Len(pf.out.units) <= pf.n
        /\ \A i \in DOMAIN pf.out.units :
              /\ pf.out.units[i] = "NUL" <=> i = Len(pf.out.units)
              /\ pf.out.units[i] = "LF" => i > 1 /\ pf.out.units[i - 1] = "CR"
        /\ Len(Ucs2Emitted(pf.out.units)) <= Len(pf.buf)
        /\ Ucs2Emitted(pf.out.units) = SubSeq(pf.buf, 1, Len(Ucs2Emitted(pf.out.units)))
        /\ pf.out.res.val = ByteLen(Ucs2Emitted(pf.out.units))
        /\ pf.out.res.val <= ByteLen(pf.buf)

C39_Witness ==
    /\ pf.fn = "utf8_to_ucs2" /\ pf.done /\ pf.n = 3
    /\ pf.buf = <<"e2", "LF", "a">>
    /\ pf.out.units = <<"e2", "CR", "NUL">> /\ pf.out.res = Ok(2)

\* What a pass over a run of backslashes does, and the null or empty line.
C40_RunAndEmptyLine ==
    /\ (pf.last = "arg" /\ BackslashRun(pf.prev.rest) >= 1) =>
          LET n == BackslashRun(pf.prev.rest)
          IN  /\ pf.p.in_quotes = pf.prev.in_quotes /\ pf.p.ret_val = pf.prev.ret_val
              /\ IF QuoteAfterRun(pf.prev.rest)
                 THEN IF n % 2 = 1
                      THEN /\ pf.p.cur = pf.prev.cur \o Repeat("BACKSLASH", n \div 2)
                                                     \o <<"QUOTE">>
                           /\ pf.p.rest = Skip(pf.prev.rest, n + 1)
                      ELSE /\ pf.p.cur = pf.prev.cur \o Repeat("BACKSLASH", n \div 2)
                           /\ pf.p.rest = Skip(pf.prev.rest, n)
                 ELSE /\ pf.p.cur = pf.prev.cur \o Repeat("BACKSLASH", n)
                      /\ pf.p.rest = Skip(pf.prev.rest, n)
    /\ (pf.fn = "parse_lp_cmd_line" /\ pf.done /\ (pf.null \/ pf.line = <<>>)) =>
          pf.p.ret_val = <<pf.exe_name>>

====
